---- MODULE Spec2Model ----
(***************************************************************************)
(* Verification model of the Agentic Grocery backend (FastAPI gateway,     *)
(* relational store, vector preference store, grocery and chat agents).    *)
(*                                                                         *)
(* Every HTTP handler of main.py is declared "async def" and contains no   *)
(* await, so the event loop runs each handler body to completion before    *)
(* the next one starts: one handler = one atomic action.                   *)
(***************************************************************************)
EXTENDS Integers, Sequences, FiniteSets, TLC

VARIABLES
    users,        \* table "users": sequence of rows, primary key = position
    profiles,     \* table "user_profiles"
    recipes,      \* table "recipes"
    plans,        \* table "daily_meal_plans"
    groceryLists, \* table "grocery_lists"
    mealHistory,  \* table "meal_history"
    prefDocs,     \* vector store collection "user_preferences"
    recipeDocs,   \* vector store collection "recipes"
    today,        \* the calendar date returned by datetime.now().date()
    completions,  \* number of completions the LLM has returned so far
    resp,         \* the request just handled and the response sent for it
    kroger_env,   \* KROGER_CLIENT_ID and KROGER_CLIENT_SECRET, read at import
    kroger_token, \* the module global _kroger_token
    token_expiry, \* the module global _token_expiry
    now,          \* datetime.now(), in seconds
    calls,        \* the calls of get_kroger_token: position and locals
    tokenLog      \* the token requests the server has received, in order

dbVars == <<users, profiles, recipes, plans, groceryLists, mealHistory>>
chromaVars == <<prefDocs, recipeDocs>>
vars == <<users, profiles, recipes, plans, groceryLists, mealHistory, prefDocs, recipeDocs, today, completions, resp, kroger_env, kroger_token, token_expiry, now, calls, tokenLog>>

(***************************************************************************)
(* Bounds of the model.                                                    *)
(***************************************************************************)
NumEmails == 2
NumUsernames == 2
MaxDay == 2
MaxPlanRows == 2
MaxRegenerated == 1
MaxPrefDocs == 3
MaxListRows == 1
MaxSavedRecipes == 1
MaxMealRows == 1
MaxAuthLoad == 3
MaxOwnerLoad == 2
MaxAttempts == 7
MaxTokenRequests == 3
MaxNow == 1860

Emails == 1..NumEmails
Usernames == 1..NumUsernames
Dates == 1..MaxDay

\* Optional values (Python None / a value).
None == <<>>
Some(v) == <<v>>

\* Bearer tokens a client can present: no Authorization header, or a token
\* whose subject claim is an email. A token naming an email that is not
\* registered stands for every token that fails verification.
NoToken == <<"none", 0>>
TokenFor(email) == <<"jwt", email>>
TokenInputs == {NoToken} \cup {TokenFor(e) : e \in Emails}

MealTypes == {"breakfast", "lunch", "dinner"}

\* Outcome of one LLM completion call: it raises, or it returns a completion.
\* The k-th completion returned carries recipe content k (title, macros and
\* ingredients travel together): no two completions have the same content.
LLMOutcomes == {[ok |-> FALSE, title |-> 0], [ok |-> TRUE, title |-> completions + 1]}

valid_days == {"Monday", "Tuesday", "Wednesday", "Thursday", "Friday", "Saturday", "Sunday"}
DayInputs == {"Monday", "Someday"}

\* Ingredient lists a feedback request can name (None and [] behave alike).
FeedbackInputs ==
    {[disliked |-> <<>>, liked |-> <<>>],
     [disliked |-> <<"onion">>, liked |-> <<"rice">>],
     [disliked |-> <<"onion", "tofu">>, liked |-> <<>>]}

\* Registration payloads (the profile part of UserRegister): macros omitted,
\* or given.
RegProfiles ==
    {[daily_calories |-> 2000, target_protein_g |-> None],
     [daily_calories |-> 2500, target_protein_g |-> Some(150)],
     [daily_calories |-> 1800, target_protein_g |-> Some(0)]}

Passwords == {"hunter22", "letmein1"}

\* Bodies of PUT /profile: every field of UserProfileUpdate is optional.
ProfilePatches ==
    {[daily_calories |-> None, target_protein_g |-> None],
     [daily_calories |-> Some(1800), target_protein_g |-> None],
     [daily_calories |-> None, target_protein_g |-> Some(0)]}

\* Money is counted in thousandths of a dollar, so that prices with more
\* than two decimals exist and rounding to cents does something.
\* A product of the Kroger catalog as _extract_product_data returns it.
Product(name, price) == [name |-> name, price |-> price]

\* What the Kroger API does during one request: whether an OAuth token can
\* be obtained, and what the product search yields for an ingredient name
\* (None: every search strategy fails or matches nothing).
KrogerInputs ==
    {[token |-> FALSE, catalog |-> [n \in {"rice", "tofu"} |-> None]],
     [token |-> TRUE, catalog |-> [n \in {"rice", "tofu"} |-> None]],
     [token |-> TRUE,
      catalog |-> [n \in {"rice", "tofu"} |->
                     IF n = "rice" THEN Some(Product("Kroger Rice", Some(1994)))
                     ELSE None]],
     [token |-> TRUE,
      catalog |-> [n \in {"rice", "tofu"} |->
                     IF n = "rice" THEN Some(Product("Kroger Rice", Some(2494)))
                     ELSE Some(Product("Firm Tofu", Some(1333)))]],
     [token |-> TRUE,
      catalog |-> [n \in {"rice", "tofu"} |->
                     IF n = "rice" THEN Some(Product("Kroger Rice", None))
                     ELSE Some(Product("Firm Tofu", Some(0)))]]}

\* Recipes sent to the grocery routes: structured ingredients (name,
\* quantity); an ingredient may have an empty name.
Ingredient(name, quantity) == [name |-> name, quantity |-> quantity]
RecipeInputs ==
    {<<>>,
     <<Ingredient("rice", 2)>>,
     <<Ingredient("tofu", 1), Ingredient("rice", 3)>>,
     <<Ingredient("rice", 2), Ingredient("", 1), Ingredient("tofu", 3)>>}

\* A chat message is modelled by the set of its words that matter to
\* extract_preferences.
MaxKeywords == 3
Messages ==
    LET Keywords == {"breakfast", "noon", "dinner", "snack", "quick", "45", "hour", "indian", "thai"}
    IN  {msg \in SUBSET Keywords : Cardinality(msg) <= MaxKeywords}

\* ANTHROPIC_API_KEY: unset, the placeholder of the sample environment file,
\* or a key.
ApiKeys == {"", "your_anthropic_api_key_here", "sk-key"}

\* What the completion call of the recipe agent does when it is made: it
\* raises (or its answer cannot be parsed), or it yields n recipes.
RecipeLLMOutcomes ==
    {[ok |-> FALSE, n |-> 0], [ok |-> TRUE, n |-> 0], [ok |-> TRUE, n |-> 2], [ok |-> TRUE, n |-> 4],
     [ok |-> TRUE, n |-> 5], [ok |-> TRUE, n |-> 7]}

(***************************************************************************)
(* Query helpers.                                                          *)
(***************************************************************************)
\* Query.first(): SQLite scans the table in rowid order, so the row returned
\* is the matching row with the smallest primary key; 0 stands for None.
\* `hits` is the set of primary keys of the rows matching the filter.
First(hits) ==
    IF hits = {} THEN 0 ELSE CHOOSE i \in hits : \A j \in hits : i <= j

get_user_by_email(email) == First({i \in 1..Len(users) : users[i].email = email})

get_user_by_username(username) == First({i \in 1..Len(users) : users[i].username = username})

\* Depends(get_current_user): the id of the user the token resolves to, 0 when
\* the token is missing, invalid, or its subject is not a user.
get_current_user(tok) ==
    IF tok[1] = "jwt" THEN get_user_by_email(tok[2]) ELSE 0

Respond(op, status, tok, req, body) ==
    /\ resp' = [op |-> op, status |-> status, tok |-> tok, req |-> req, body |-> body]
    /\ UNCHANGED <<kroger_env, kroger_token, token_expiry, now, calls, tokenLog>>

\* An HTTPException raised, or an exception escaping the handler (FastAPI
\* answers 500), before anything was written: the request-scoped session is
\* closed by get_db and nothing is committed.
Fail(op, status, tok) ==
    /\ Respond(op, status, tok, <<>>, <<>>)
    /\ UNCHANGED <<dbVars, chromaVars, today, completions>>

\* raise HTTPException(status_code=404, ...) before anything was written.
NotFound(op, tok, req) ==
    /\ Respond(op, 404, tok, req, <<>>)
    /\ UNCHANGED <<dbVars, chromaVars, today, completions>>

\* The dependency fails: 401 is sent and the handler body never runs.
Unauthorized(op, tok) == Fail(op, 401, tok)

(***************************************************************************)
(* POST /auth/register                                                     *)
(***************************************************************************)
(***************************************************************************)
(* GET /, GET /health, GET /agents-metadata                                *)
(***************************************************************************)
\* Static answers; no dependency on a credential or on the database.
public_info(op, tok) ==
    /\ Respond(op, 200, tok, <<>>, <<>>)
    /\ UNCHANGED <<dbVars, chromaVars, today, completions>>

\* Faulty variant: only the email is checked before the rows are inserted.
register_EmailCheckOnly(email, username, password, pdata) ==
    LET req == [email |-> email, username |-> username, profile |-> pdata]
    IN  IF get_user_by_email(email) # 0
        THEN /\ Respond("register", 400, NoToken, req, "Email already registered")
             /\ UNCHANGED <<dbVars, chromaVars, today, completions>>
        ELSE /\ users' = Append(users, [email |-> email, username |-> username,
                                        password |-> password, is_active |-> TRUE])
             /\ profiles' = Append(profiles,
                    [user_id |-> Len(users) + 1,
                     daily_calories |-> pdata.daily_calories,
                     target_protein_g |-> pdata.target_protein_g])
             /\ Respond("register", 200, NoToken, req, TokenFor(email))
             /\ UNCHANGED <<recipes, plans, groceryLists, mealHistory, chromaVars, today, completions>>

register(email, username, password, pdata) ==
    LET req == [email |-> email, username |-> username, profile |-> pdata]
    IN  IF get_user_by_email(email) # 0
        THEN /\ Respond("register", 400, NoToken, req, "Email already registered")
             /\ UNCHANGED <<dbVars, chromaVars, today, completions>>
        ELSE IF get_user_by_username(username) # 0
        THEN /\ Respond("register", 400, NoToken, req, "Username already taken")
             /\ UNCHANGED <<dbVars, chromaVars, today, completions>>
        ELSE /\ users' = Append(users, [email |-> email, username |-> username,
                                        password |-> password, is_active |-> TRUE])
             /\ profiles' = Append(profiles,
                    [user_id |-> Len(users) + 1,
                     daily_calories |-> pdata.daily_calories,
                     target_protein_g |-> pdata.target_protein_g])
             /\ Respond("register", 200, NoToken, req, TokenFor(email))
             /\ UNCHANGED <<recipes, plans, groceryLists, mealHistory, chromaVars, today, completions>>

(***************************************************************************)
(* POST /auth/login                                                        *)
(***************************************************************************)
\* User.verify_password: the stored hash is the hash of the given password.
verify_password(user, password) == user.password = password

login(email, password) ==
    LET u == get_user_by_email(email)
    IN  IF u = 0 \/ ~verify_password(users[u], password)
        THEN Fail("login", 401, NoToken)
        ELSE IF ~users[u].is_active
        THEN Fail("login", 403, NoToken)
        ELSE /\ Respond("login", 200, NoToken, [email |-> email], TokenFor(users[u].email))
             /\ UNCHANGED <<dbVars, chromaVars, today, completions>>

(***************************************************************************)
(* GET /profile and PUT /profile                                           *)
(***************************************************************************)
ProfileOf(user_id) == First({i \in 1..Len(profiles) : profiles[i].user_id = user_id})

\* Python truthiness of an optional number: None and 0 are falsy.
Truthy(opt) == opt # None /\ opt[1] # 0

\* The "profile" object of the GET /profile answer.
ProfileData(profile) ==
    [daily_calories |-> profile.daily_calories,
     macros |-> IF Truthy(profile.target_protein_g)
                THEN Some([protein |-> profile.target_protein_g])
                ELSE None]

get_profile(tok) ==
    LET u == get_current_user(tok)
        p == ProfileOf(u)
    IN  IF u = 0 THEN Unauthorized("get_profile", tok)
        ELSE /\ Respond("get_profile", 200, tok, <<>>,
                        [id |-> u, email |-> users[u].email, username |-> users[u].username,
                         profile |-> IF p = 0 THEN None ELSE Some(ProfileData(profiles[p]))])
             /\ UNCHANGED <<dbVars, chromaVars, today, completions>>

\* Faulty variant: absent fields are written as well (the None values are
\* not filtered out of the patch).
ApplyUpdate_Unfiltered(profile, patch) ==
    [profile EXCEPT
        !.daily_calories = IF patch.daily_calories = None THEN 0 ELSE patch.daily_calories[1],
        !.target_protein_g = patch.target_protein_g]

\* database.create_user_profile on an existing row: setattr for every key of
\* the update dict, i.e. every field of the body that is not None.
ApplyUpdate(profile, patch) ==
    [profile EXCEPT
        !.daily_calories = IF patch.daily_calories = None THEN @ ELSE patch.daily_calories[1],
        !.target_protein_g = IF patch.target_protein_g = None THEN @ ELSE patch.target_protein_g]

update_profile(tok, patch) ==
    LET u == get_current_user(tok)
        p == ProfileOf(u)
    IN  IF u = 0 THEN Unauthorized("update_profile", tok)
        ELSE IF patch.daily_calories = None /\ patch.target_protein_g = None
        THEN /\ Respond("update_profile", 400, tok, patch, <<>>)
             /\ UNCHANGED <<dbVars, chromaVars, today, completions>>
        ELSE /\ profiles' =
                  IF p # 0 THEN [profiles EXCEPT ![p] = ApplyUpdate(@, patch)]
                  ELSE Append(profiles,
                         [user_id |-> u,
                          daily_calories |-> IF patch.daily_calories = None THEN 0
                                             ELSE patch.daily_calories[1],
                          target_protein_g |-> patch.target_protein_g])
             /\ Respond("update_profile", 200, tok, patch, <<>>)
             /\ UNCHANGED <<users, recipes, plans, groceryLists, mealHistory, chromaVars, today, completions>>

(***************************************************************************)
(* Daily meal generation (agents/recipe_agent/daily_meals.py).             *)
(***************************************************************************)
\* ChromaService.store_recipe: the document gets a fresh uuid, here its
\* position in the collection.
store_recipe(docs, user_id, meal_type, title) ==
    Append(docs, [user_id |-> user_id, meal_type |-> meal_type, title |-> title])

\* One recipe of an LLM answer is embedded, stored in the vector store and
\* tagged with the id of its document.
create_recipe_with_embedding(docs, title, user_id, meal_type) ==
    [docs |-> store_recipe(docs, user_id, meal_type, title),
     recipe |-> [title |-> title, meal_type |-> meal_type, chroma_id |-> Len(docs) + 1]]

\* The three meals of a day built from a successful completion.
generate_daily_meals_with_claude(docs, user_id, llm) ==
    LET b == create_recipe_with_embedding(docs, llm.title, user_id, "breakfast")
        l == create_recipe_with_embedding(b.docs, llm.title, user_id, "lunch")
        d == create_recipe_with_embedding(l.docs, llm.title, user_id, "dinner")
    IN  [docs |-> d.docs, breakfast |-> b.recipe, lunch |-> l.recipe, dinner |-> d.recipe]

\* A single regenerated meal.
generate_single_meal_with_claude(docs, user_id, meal_type, llm) ==
    create_recipe_with_embedding(docs, llm.title, user_id, meal_type)

\* Recipe(...) row built from a generated recipe dict.
RecipeRow(user_id, r) ==
    [user_id |-> user_id, title |-> r.title, meal_type |-> r.meal_type,
     chroma_id |-> r.chroma_id, is_favorite |-> FALSE]

\* DailyMealPlan(...) row for the three recipes inserted after `base` rows.
PlanRow(user_id, date, base) ==
    [user_id |-> user_id, date |-> date,
     breakfast_recipe_id |-> base + 1,
     lunch_recipe_id |-> base + 2,
     dinner_recipe_id |-> base + 3]

\* What a client sees of a recipe: its title and macros, and its meal slot.
Shown(r) == [title |-> r.title, meal_type |-> r.meal_type]

\* The stored plan a (user, date) query returns; 0 when there is none.
PlanFor(user_id, date) ==
    First({i \in 1..Len(plans) : plans[i].user_id = user_id /\ plans[i].date = date})

(***************************************************************************)
(* POST /daily-meals/generate                                              *)
(***************************************************************************)
\* fault names the step that raises after the completion was parsed, if any:
\* "store_recipe" is the vector-store write of the second meal, "commit" the
\* flush or the commit of the session. The vector store keeps what was
\* written before; the session is closed by get_db without a commit.
generate_daily_meals(tok, day, llm, fault) ==
    LET u == get_current_user(tok)
        req == [date |-> today]
    IN  IF u = 0 THEN Unauthorized("generate", tok)
        ELSE IF ProfileOf(u) = 0
        THEN Fail("generate", 404, tok)
        ELSE IF ~llm.ok
        THEN Fail("generate", 500, tok)
        ELSE LET g == generate_daily_meals_with_claude(recipeDocs, u, llm)
             IN  IF fault # "none"
                 THEN /\ Len(plans) < MaxPlanRows
                      /\ completions < MaxPlanRows + MaxRegenerated
                      /\ recipeDocs' = IF fault = "store_recipe"
                                       THEN SubSeq(g.docs, 1, Len(recipeDocs) + 1)
                                       ELSE g.docs
                      /\ Respond("generate", 500, tok, req, <<>>)
                      /\ completions' = completions + 1
                      /\ UNCHANGED <<dbVars, prefDocs, today>>
                 ELSE
                 /\ Len(plans) < MaxPlanRows
                 /\ recipeDocs' = g.docs
                 /\ recipes' = recipes \o <<RecipeRow(u, g.breakfast),
                                            RecipeRow(u, g.lunch),
                                            RecipeRow(u, g.dinner)>>
                 /\ plans' = Append(plans, PlanRow(u, today, Len(recipes)))
                 /\ Respond("generate", 200, tok, req,
                            <<g.breakfast, g.lunch, g.dinner>>)
                 /\ completions' = completions + 1
                 /\ UNCHANGED <<users, profiles, groceryLists, mealHistory, prefDocs, today>>

(***************************************************************************)
(* POST /daily-meals/generate-by-day                                       *)
(***************************************************************************)
\* The loop that stores the three saved recipes in the vector store again and
\* overwrites each row's chroma_id with the id of the new document.
RestoreInChroma_KeepsChromaId(docs, rows, from) ==
    [docs |-> docs \o [k \in 1..3 |->
                 [user_id |-> rows[from + k].user_id,
                  meal_type |-> rows[from + k].meal_type,
                  title |-> rows[from + k].title]],
     rows |-> rows]

RestoreInChroma(docs, rows, from) ==
    [docs |-> docs \o [k \in 1..3 |->
                 [user_id |-> rows[from + k].user_id,
                  meal_type |-> rows[from + k].meal_type,
                  title |-> rows[from + k].title]],
     rows |-> [i \in 1..Len(rows) |->
                 IF i > from /\ i <= from + 3
                 THEN [rows[i] EXCEPT !.chroma_id = Len(docs) + (i - from)]
                 ELSE rows[i]]]

\* Faulty variant: the day name is not validated.
generate_daily_meals_by_day_NoDayCheck(tok, day, llm, fault) ==
    LET u == get_current_user(tok)
        req == [date |-> today, day |-> day]
    IN  IF u = 0 THEN Unauthorized("generate_by_day", tok)
        ELSE IF ProfileOf(u) = 0
        THEN /\ Respond("generate_by_day", 404, tok, req, <<>>)
             /\ UNCHANGED <<dbVars, chromaVars, today, completions>>
        ELSE IF ~llm.ok
        THEN /\ Respond("generate_by_day", 500, tok, req, <<>>)
             /\ UNCHANGED <<dbVars, chromaVars, today, completions>>
        ELSE LET g == generate_daily_meals_with_claude(recipeDocs, u, llm)
                 rows == recipes \o <<RecipeRow(u, g.breakfast),
                                      RecipeRow(u, g.lunch),
                                      RecipeRow(u, g.dinner)>>
                 c == RestoreInChroma(g.docs, rows, Len(recipes))
             IN  IF fault # "none"
                 THEN /\ Len(plans) < MaxPlanRows
                      /\ completions < MaxPlanRows + MaxRegenerated
                      /\ recipeDocs' = CASE fault = "store_recipe" ->
                                                SubSeq(g.docs, 1, Len(recipeDocs) + 1)
                                         [] fault = "restore" -> SubSeq(c.docs, 1, Len(g.docs) + 1)
                                         [] OTHER -> g.docs
                      /\ recipes' = CASE fault = "commit_plan" -> rows
                                      [] fault = "restore" ->
                                             [i \in 1..Len(rows) |->
                                                 IF i = Len(recipes) + 1 THEN c.rows[i] ELSE rows[i]]
                                      [] OTHER -> recipes
                      /\ plans' = IF fault = "restore"
                                  THEN Append(plans, PlanRow(u, today, Len(recipes)))
                                  ELSE plans
                      /\ Respond("generate_by_day", 500, tok, req, <<>>)
                      /\ completions' = completions + 1
                      /\ UNCHANGED <<users, profiles, groceryLists, mealHistory, prefDocs, today>>
                 ELSE
                 /\ Len(plans) < MaxPlanRows
                 /\ recipeDocs' = c.docs
                 /\ recipes' = c.rows
                 /\ plans' = Append(plans, PlanRow(u, today, Len(recipes)))
                 /\ Respond("generate_by_day", 200, tok, req,
                            <<g.breakfast, g.lunch, g.dinner>>)
                 /\ completions' = completions + 1
                 /\ UNCHANGED <<users, profiles, groceryLists, mealHistory, prefDocs, today>>

\* fault names the step that raises after the completion was parsed, if any:
\* "store_recipe" is the vector-store write of the second meal, "commit_recipes"
\* the first commit, "commit_plan" the second one, "restore" the vector-store
\* write of the second turn of the final loop (the first turn has committed).
generate_daily_meals_by_day(tok, day, llm, fault) ==
    LET u == get_current_user(tok)
        req == [date |-> today, day |-> day]
    IN  IF u = 0 THEN Unauthorized("generate_by_day", tok)
        ELSE IF day \notin valid_days
        THEN /\ Respond("generate_by_day", 400, tok, req, <<>>)
             /\ UNCHANGED <<dbVars, chromaVars, today, completions>>
        ELSE IF ProfileOf(u) = 0
        THEN /\ Respond("generate_by_day", 404, tok, req, <<>>)
             /\ UNCHANGED <<dbVars, chromaVars, today, completions>>
        ELSE IF ~llm.ok
        THEN /\ Respond("generate_by_day", 500, tok, req, <<>>)
             /\ UNCHANGED <<dbVars, chromaVars, today, completions>>
        ELSE LET g == generate_daily_meals_with_claude(recipeDocs, u, llm)
                 rows == recipes \o <<RecipeRow(u, g.breakfast),
                                      RecipeRow(u, g.lunch),
                                      RecipeRow(u, g.dinner)>>
                 c == RestoreInChroma(g.docs, rows, Len(recipes))
             IN  IF fault # "none"
                 THEN /\ Len(plans) < MaxPlanRows
                      /\ completions < MaxPlanRows + MaxRegenerated
                      /\ recipeDocs' = CASE fault = "store_recipe" ->
                                                SubSeq(g.docs, 1, Len(recipeDocs) + 1)
                                         [] fault = "restore" -> SubSeq(c.docs, 1, Len(g.docs) + 1)
                                         [] OTHER -> g.docs
                      /\ recipes' = CASE fault = "commit_plan" -> rows
                                      [] fault = "restore" ->
                                             [i \in 1..Len(rows) |->
                                                 IF i = Len(recipes) + 1 THEN c.rows[i] ELSE rows[i]]
                                      [] OTHER -> recipes
                      /\ plans' = IF fault = "restore"
                                  THEN Append(plans, PlanRow(u, today, Len(recipes)))
                                  ELSE plans
                      /\ Respond("generate_by_day", 500, tok, req, <<>>)
                      /\ completions' = completions + 1
                      /\ UNCHANGED <<users, profiles, groceryLists, mealHistory, prefDocs, today>>
                 ELSE
                 /\ Len(plans) < MaxPlanRows
                 /\ recipeDocs' = c.docs
                 /\ recipes' = c.rows
                 /\ plans' = Append(plans, PlanRow(u, today, Len(recipes)))
                 /\ Respond("generate_by_day", 200, tok, req,
                            <<g.breakfast, g.lunch, g.dinner>>)
                 /\ completions' = completions + 1
                 /\ UNCHANGED <<users, profiles, groceryLists, mealHistory, prefDocs, today>>

(***************************************************************************)
(* POST /daily-meals/regenerate                                            *)
(***************************************************************************)
\* Faulty variant: the new recipe is written into every slot of the plan.
SetMealRecipe_EverySlot(plan, meal_type, recipe_id) ==
    [plan EXCEPT !.breakfast_recipe_id = recipe_id,
                 !.lunch_recipe_id = recipe_id,
                 !.dinner_recipe_id = recipe_id]

\* The if/elif chain that points the plan's slot for meal_type at recipe_id.
SetMealRecipe(plan, meal_type, recipe_id) ==
    IF meal_type = "breakfast" THEN [plan EXCEPT !.breakfast_recipe_id = recipe_id]
    ELSE IF meal_type = "lunch" THEN [plan EXCEPT !.lunch_recipe_id = recipe_id]
    ELSE IF meal_type = "dinner" THEN [plan EXCEPT !.dinner_recipe_id = recipe_id]
    ELSE plan

regenerate_meal(tok, date, meal_type, llm) ==
    LET u == get_current_user(tok)
        req == [date |-> date, meal_type |-> meal_type]
        p == PlanFor(u, date)
    IN  IF u = 0 THEN Unauthorized("regenerate", tok)
        ELSE IF p = 0
        THEN NotFound("regenerate", tok, req)
        ELSE IF ~llm.ok
        THEN /\ Respond("regenerate", 500, tok, req, <<>>)
             /\ UNCHANGED <<dbVars, chromaVars, today, completions>>
        ELSE LET g == generate_single_meal_with_claude(recipeDocs, u, meal_type, llm)
             IN  /\ Len(recipes) - 3 * Len(plans) < MaxRegenerated
                 /\ recipeDocs' = g.docs
                 /\ recipes' = Append(recipes, RecipeRow(u, g.recipe))
                 /\ plans' = [plans EXCEPT ![p] =
                                 SetMealRecipe(plans[p], meal_type, Len(recipes) + 1)]
                 /\ Respond("regenerate", 200, tok, req, g.recipe)
                 /\ completions' = completions + 1
                 /\ UNCHANGED <<users, profiles, groceryLists, mealHistory, prefDocs, today>>

(***************************************************************************)
(* GET /daily-meals/{date}                                                 *)
(***************************************************************************)
\* The three recipes the handler returns for a stored plan.
PlanMeals(p) ==
    <<Shown(recipes[plans[p].breakfast_recipe_id]),
      Shown(recipes[plans[p].lunch_recipe_id]),
      Shown(recipes[plans[p].dinner_recipe_id])>>

get_daily_meals(tok, date) ==
    LET u == get_current_user(tok)
        req == [date |-> date]
        p == PlanFor(u, date)
    IN  IF u = 0 THEN Unauthorized("get_daily_meals", tok)
        ELSE IF p = 0
        THEN Fail("get_daily_meals", 404, tok)
        ELSE /\ Respond("get_daily_meals", 200, tok, req, PlanMeals(p))
             /\ UNCHANGED <<dbVars, chromaVars, today, completions>>

(***************************************************************************)
(* POST /daily-meals/feedback and the preference store (chroma_service.py) *)
(***************************************************************************)
\* ChromaService.store_user_preference: the metadata dict is built with
\* preference_data["preference_type"] and preference_data["item_type"] before
\* the document is added, so a dict lacking one of the keys raises KeyError
\* and nothing is added.
store_user_preference(docs, user_id, preference_data) ==
    IF {"preference_type", "item_type"} \subseteq DOMAIN preference_data
    THEN [ok |-> TRUE,
          docs |-> Append(docs, [user_id |-> user_id,
                                 preference_type |-> preference_data.preference_type,
                                 item_name |-> preference_data.item_name])]
    ELSE [ok |-> FALSE, docs |-> docs]

\* The handler's calls of store_user_preference in program order; the first
\* call that raises ends the handler, what was added before it stays.
RECURSIVE StoreAll(_, _, _)
StoreAll(docs, user_id, datas) ==
    IF datas = <<>> THEN [ok |-> TRUE, docs |-> docs]
    ELSE LET r == store_user_preference(docs, user_id, Head(datas))
         IN  IF r.ok THEN StoreAll(r.docs, user_id, Tail(datas)) ELSE r

\* The dict the handler builds for the whole feedback payload.
FeedbackBlob(user_id, date) ==
    [user_id |-> user_id, date |-> date, preference_type |-> "feedback"]

\* The dict the handler builds for one liked or disliked ingredient.
IngredientPref(user_id, kind, ingredient) ==
    [user_id |-> user_id, preference_type |-> kind,
     item_name |-> ingredient, item_type |-> "ingredient"]

\* ChromaService.get_user_dislikes: of the first `limit` documents of the
\* user, the item names of those whose preference_type is "disliked".
DislikesLimit == 100
get_user_dislikes(docs, user_id) ==
    LET mine == SelectSeq(docs, LAMBDA d : d.user_id = user_id)
        got == SubSeq(mine, 1, IF Len(mine) < DislikesLimit THEN Len(mine) ELSE DislikesLimit)
        dis == SelectSeq(got, LAMBDA d : d.preference_type = "disliked")
    IN  [i \in 1..Len(dis) |-> dis[i].item_name]

submit_meal_feedback(tok, date, disliked, liked) ==
    LET u == get_current_user(tok)
        req == [date |-> date, disliked |-> disliked, liked |-> liked]
        datas == <<FeedbackBlob(u, date)>>
                 \o [i \in 1..Len(disliked) |-> IngredientPref(u, "disliked", disliked[i])]
                 \o [i \in 1..Len(liked) |-> IngredientPref(u, "liked", liked[i])]
        r == StoreAll(prefDocs, u, datas)
    IN  IF u = 0 THEN Unauthorized("feedback", tok)
        ELSE /\ Len(r.docs) <= MaxPrefDocs
             /\ prefDocs' = r.docs
             /\ Respond("feedback", IF r.ok THEN 200 ELSE 500, tok, req, <<>>)
             /\ UNCHANGED <<dbVars, recipeDocs, today, completions>>

(***************************************************************************)
(* Grocery agent (agents/grocery_agent/agent.py).                          *)
(***************************************************************************)
\* get_kroger_token: a token, or None when none can be obtained.
get_kroger_token(kroger) == IF kroger.token THEN Some("token") ELSE None

\* search_kroger_product: None without a token or when no strategy yields a
\* match, else the extracted data of the best match.
search_kroger_product(kroger, ingredient_name) ==
    IF get_kroger_token(kroger) = None THEN None
    ELSE IF ingredient_name \in DOMAIN kroger.catalog
    THEN kroger.catalog[ingredient_name]
    ELSE None

\* `kroger_product and kroger_product.get("price")`
Priced(result) == result # None /\ Truthy(result[1].price)

search_and_price_ingredient(kroger, ingredient_name, quantity) ==
    LET kroger_product == search_kroger_product(kroger, ingredient_name)
    IN  IF Priced(kroger_product)
        THEN [name |-> kroger_product[1].name, quantity |-> quantity,
              price |-> kroger_product[1].price, source |-> "kroger_api", found |-> TRUE]
        ELSE [name |-> ingredient_name, quantity |-> quantity,
              price |-> None, source |-> "not_found", found |-> FALSE]

\* Faulty variant: the amount is cut to whole cents.
Round2_Truncate(amount) == (amount \div 10) * 10

\* round(x, 2) of an amount in thousandths: to the nearest cent, a half going
\* to the even cent.
Round2(amount) ==
    LET cents == amount \div 10
        rest == amount % 10
    IN  IF rest > 5 \/ (rest = 5 /\ cents % 2 = 1) THEN (cents + 1) * 10 ELSE cents * 10

\* The loop of create_grocery_list over the ingredients: the items kept so
\* far, the running total and the count of items found.
RECURSIVE GroceryLoop(_, _, _)
GroceryLoop(kroger, ingredients, acc) ==
    IF ingredients = <<>> THEN acc
    ELSE LET ing == Head(ingredients)
             item_details == search_and_price_ingredient(kroger, ing.name, ing.quantity)
         IN  GroceryLoop(kroger, Tail(ingredients),
                IF item_details.found /\ item_details.source = "kroger_api"
                THEN [items |-> Append(acc.items,
                                   [name |-> item_details.name,
                                    quantity |-> ing.quantity,
                                    estimated_price |-> item_details.price]),
                      total_cost |-> IF item_details.price # None
                                     THEN acc.total_cost + item_details.price[1]
                                     ELSE acc.total_cost,
                      kroger_items_found |-> acc.kroger_items_found + 1]
                ELSE acc)

\* Faulty variant: every ingredient searched is counted as found.
create_grocery_list_CountsSearched(kroger, recipe) ==
    LET r == GroceryLoop(kroger, recipe,
                         [items |-> <<>>, total_cost |-> 0, kroger_items_found |-> 0])
    IN  [items |-> r.items,
         total_estimated_cost |-> Round2(r.total_cost),
         kroger_items_found |-> Len(recipe),
         total_items |-> Len(recipe)]

create_grocery_list(kroger, recipe) ==
    LET r == GroceryLoop(kroger, recipe,
                         [items |-> <<>>, total_cost |-> 0, kroger_items_found |-> 0])
    IN  [items |-> r.items,
         total_estimated_cost |-> Round2(r.total_cost),
         kroger_items_found |-> r.kroger_items_found,
         total_items |-> Len(recipe)]

\* generate_grocery_list: the response dict built from create_grocery_list.
generate_grocery_list(kroger, recipe) ==
    LET grocery_data == create_grocery_list(kroger, recipe)
    IN  [items |-> grocery_data.items,
         total_estimated_cost |-> grocery_data.total_estimated_cost,
         kroger_items_found |-> grocery_data.kroger_items_found,
         total_items |-> grocery_data.total_items,
         llm_provider |-> IF grocery_data.kroger_items_found > 0
                          THEN "kroger_api" ELSE "estimated"]

\* database.create_grocery_list: one new row of grocery_lists.
db_create_grocery_list(user_id, total_cost, items) ==
    Append(groceryLists, [user_id |-> user_id, total_cost |-> total_cost,
                          items |-> items, is_completed |-> FALSE])

(***************************************************************************)
(* POST /grocery                                                           *)
(***************************************************************************)
grocery_endpoint(tok, recipe, kroger) ==
    LET u == get_current_user(tok)
        req == [recipe |-> recipe, kroger |-> kroger]
        response == generate_grocery_list(kroger, recipe)
    IN  IF u = 0 THEN Unauthorized("grocery", tok)
        ELSE /\ Len(groceryLists) < MaxListRows
             /\ groceryLists' = db_create_grocery_list(u, response.total_estimated_cost,
                                                       response.items)
             /\ Respond("grocery", 200, tok, req,
                        [list_id |-> Len(groceryLists) + 1,
                         items |-> response.items,
                         total_estimated_cost |-> response.total_estimated_cost,
                         kroger_items_found |-> response.kroger_items_found,
                         total_items |-> response.total_items])
             /\ UNCHANGED <<users, profiles, recipes, plans, mealHistory, chromaVars, today, completions>>

(***************************************************************************)
(* POST /grocery/from-recipe                                               *)
(***************************************************************************)
\* The flat per-unit estimate for an ingredient without a priced product.
estimated_price == 2500

\* The line item for an ingredient with a priced Kroger product.
KrogerItem(kroger_result, ing) ==
    [name |-> kroger_result.name,
     quantity |-> ing.quantity,
     price_per_unit |-> kroger_result.price[1],
     total_price |-> kroger_result.price[1] * ing.quantity,
     source |-> "kroger"]

\* Faulty variant: the estimate is charged once, whatever the quantity.
EstimatedItem_FlatTotal(ing) ==
    [name |-> ing.name,
     quantity |-> ing.quantity,
     price_per_unit |-> estimated_price,
     total_price |-> estimated_price,
     source |-> "estimated"]

\* The line item for an ingredient without one.
EstimatedItem(ing) ==
    [name |-> ing.name,
     quantity |-> ing.quantity,
     price_per_unit |-> estimated_price,
     total_price |-> estimated_price * ing.quantity,
     source |-> "estimated"]

\* The loop of the handler over recipe.ingredients: unnamed ingredients are
\* skipped, every other one adds a line item and its cost.
RECURSIVE FromRecipeLoop(_, _, _)
FromRecipeLoop(kroger, ingredients, acc) ==
    IF ingredients = <<>> THEN acc
    ELSE LET ing == Head(ingredients)
             kroger_result == search_kroger_product(kroger, ing.name)
             found == Priced(kroger_result)
             grocery_item == IF found THEN KrogerItem(kroger_result[1], ing)
                             ELSE EstimatedItem(ing)
         IN  FromRecipeLoop(kroger, Tail(ingredients),
                IF ing.name = "" THEN acc
                ELSE [items |-> Append(acc.items, grocery_item),
                      total_cost |-> acc.total_cost + grocery_item.total_price,
                      kroger_items_found |-> acc.kroger_items_found + (IF found THEN 1 ELSE 0)])

\* The 503 for a missing token and the 400 for an empty ingredient list are
\* raised inside the handler's try block and caught by its `except Exception`,
\* which answers 500.
create_grocery_list_from_recipe(tok, recipe, kroger) ==
    LET u == get_current_user(tok)
        req == [recipe |-> recipe, kroger |-> kroger]
        r == FromRecipeLoop(kroger, recipe,
                            [items |-> <<>>, total_cost |-> 0, kroger_items_found |-> 0])
    IN  IF u = 0 THEN Unauthorized("from_recipe", tok)
        ELSE IF get_kroger_token(kroger) = None \/ recipe = <<>>
        THEN /\ Respond("from_recipe", 500, tok, req, <<>>)
             /\ UNCHANGED <<dbVars, chromaVars, today, completions>>
        ELSE /\ Len(groceryLists) < MaxListRows
             /\ groceryLists' = db_create_grocery_list(u, r.total_cost, r.items)
             /\ Respond("from_recipe", 200, tok, req,
                        [list_id |-> Len(groceryLists) + 1,
                         items |-> r.items,
                         total_estimated_cost |-> r.total_cost,
                         kroger_items_found |-> r.kroger_items_found,
                         total_items |-> Len(r.items)])
             /\ UNCHANGED <<users, profiles, recipes, plans, mealHistory, chromaVars, today, completions>>

(***************************************************************************)
(* GET /grocery-lists and POST /grocery-lists/{list_id}/complete           *)
(***************************************************************************)
get_grocery_lists(tok) ==
    LET u == get_current_user(tok)
    IN  IF u = 0 THEN Unauthorized("get_grocery_lists", tok)
        ELSE /\ Respond("get_grocery_lists", 200, tok, <<>>,
                        SelectSeq(groceryLists, LAMBDA l : l.user_id = u))
             /\ UNCHANGED <<dbVars, chromaVars, today, completions>>

\* Faulty variant: the route is declared without the authentication dependency.
complete_grocery_list_NoAuth(tok, list_id) ==
    IF list_id \notin 1..Len(groceryLists)
    THEN NotFound("complete", tok, [list_id |-> list_id])
    ELSE /\ groceryLists' = [groceryLists EXCEPT ![list_id].is_completed = TRUE]
         /\ Respond("complete", 200, tok, [list_id |-> list_id], <<>>)
         /\ UNCHANGED <<users, profiles, recipes, plans, mealHistory, chromaVars, today, completions>>

complete_grocery_list(tok, list_id) ==
    LET u == get_current_user(tok)
    IN  IF u = 0 THEN Unauthorized("complete", tok)
        ELSE IF list_id \notin 1..Len(groceryLists) \/ groceryLists[list_id].user_id # u
        THEN NotFound("complete", tok, [list_id |-> list_id])
        ELSE /\ groceryLists' = [groceryLists EXCEPT ![list_id].is_completed = TRUE]
             /\ Respond("complete", 200, tok, [list_id |-> list_id], <<>>)
             /\ UNCHANGED <<users, profiles, recipes, plans, mealHistory, chromaVars, today, completions>>

(***************************************************************************)
(* Chat agent (agents/chat_agent/agent.py).                                *)
(***************************************************************************)
\* `word in message_lower` is a substring test: the keyword "fast" occurs in
\* a message that has the word "breakfast".
Occurs(keyword, message) ==
    \/ keyword \in message
    \/ keyword = "fast" /\ "breakfast" \in message

\* any(word in message_lower for word in words)
Mentions(message, words) == \E i \in 1..Len(words) : Occurs(words[i], message)

\* The first cuisine of the list that occurs in the message, else None.
RECURSIVE FirstCuisine(_, _)
FirstCuisine(message, cuisines) ==
    IF cuisines = <<>> THEN None
    ELSE IF Occurs(Head(cuisines), message) THEN Some(Head(cuisines))
    ELSE FirstCuisine(message, Tail(cuisines))

extract_preferences(message, user_profile) ==
    [meal_type |->
        IF Mentions(message, <<"breakfast", "morning">>) THEN Some("breakfast")
        ELSE IF Mentions(message, <<"lunch", "noon">>) THEN Some("lunch")
        ELSE IF Mentions(message, <<"dinner", "evening">>) THEN Some("dinner")
        ELSE IF Mentions(message, <<"snack">>) THEN Some("snack")
        ELSE None,
     cook_time |->
        IF Mentions(message, <<"quick", "fast", "15", "20">>) THEN Some("15-30 mins")
        ELSE IF Mentions(message, <<"30", "45">>) THEN Some("30-45 mins")
        ELSE IF Mentions(message, <<"hour", "60">>) THEN Some("45-60 mins")
        ELSE None,
     cuisine |-> FirstCuisine(message,
                    <<"indian", "italian", "chinese", "mexican", "thai", "japanese">>),
     dietary_restrictions |-> user_profile.diet]

\* (is_complete, missing_info_message)
is_request_complete(preferences) ==
    IF preferences.meal_type = None
    THEN <<FALSE, "What meal are you planning?">>
    ELSE IF preferences.cook_time = None
    THEN <<FALSE, "How much time do you have to cook?">>
    ELSE <<TRUE, "">>

process_chat(user_message, user_profile) ==
    LET preferences == extract_preferences(user_message, user_profile)
        is_complete == is_request_complete(preferences)[1]
        missing_info == is_request_complete(preferences)[2]
    IN  IF ~is_complete
        THEN [message |-> missing_info,
              next_action |-> "await_user_input", structured_data |-> None]
        ELSE [message |-> "Great! Let me find some recipes for you...",
              next_action |-> "generate_recipes",
              structured_data |-> Some([user_profile |-> user_profile,
                                        preferences |-> preferences])]

(***************************************************************************)
(* Recipe agent (agents/recipe_agent/agent.py).                            *)
(***************************************************************************)
\* generate_mock_recipes: preferences.get("cuisine", "indian") is None when
\* the key is present with value None, and the generic branch then calls
\* cuisine.capitalize() and meal_type.capitalize(), which raise on None.
generate_mock_recipes(request) ==
    LET meal_type == request.preferences.meal_type
        cuisine == request.preferences.cuisine
        diet == request.preferences.dietary_restrictions
    IN  IF diet = "vegetarian" /\ cuisine = Some("indian")
        THEN [raised |-> FALSE,
              recipes |-> SubSeq(<<[title |-> <<"Paneer Tikka with Quinoa Bowl">>],
                                   [title |-> <<"Spicy Chickpea Buddha Bowl">>],
                                   [title |-> <<"Dal Tadka with Whole Wheat Roti">>],
                                   [title |-> <<"Masala Oats with Vegetables">>],
                                   [title |-> <<"Moong Dal Cheela (Lentil Pancakes)">>]>>, 1, 5)]
        ELSE IF cuisine = None \/ meal_type = None
        THEN [raised |-> TRUE, recipes |-> <<>>]
        ELSE [raised |-> FALSE,
              recipes |-> <<[title |-> <<"Healthy", cuisine[1], meal_type[1]>>]>>]

\* Faulty variant: every recipe of the completion is returned.
generate_recipes_with_claude_Uncapped(request, api_key, llm) ==
    LET usable == api_key # "" /\ api_key # "your_anthropic_api_key_here"
        mock == generate_mock_recipes(request)
    IN  IF usable /\ llm.ok
        THEN [raised |-> FALSE, recipes |-> [k \in 1..llm.n |-> [title |-> <<"claude">>]],
              tools_called |-> <<"generate_recipes_with_claude", "claude_api_call",
                                 "generate_recipe_image">>]
        ELSE [raised |-> mock.raised, recipes |-> mock.recipes,
              tools_called |-> <<"generate_recipes_with_claude">>
                               \o (IF usable THEN <<"claude_api_error">> ELSE <<>>)
                               \o <<"generate_mock_recipes_fallback">>]

\* generate_recipes_with_claude: the completion is requested only with a key
\* that is not the placeholder; any exception of that path falls back to the
\* mock recipes. Of the recipes of a completion the first five are kept
\* (recipes_data[:5]). tools_called is the log of the steps taken.
generate_recipes_with_claude(request, api_key, llm) ==
    LET usable == api_key # "" /\ api_key # "your_anthropic_api_key_here"
        mock == generate_mock_recipes(request)
    IN  IF usable /\ llm.ok
        THEN [raised |-> FALSE,
              recipes |-> [k \in 1..(IF llm.n < 5 THEN llm.n ELSE 5) |->
                              [title |-> <<"claude">>]],
              tools_called |-> <<"generate_recipes_with_claude", "claude_api_call",
                                 "generate_recipe_image">>]
        ELSE [raised |-> mock.raised, recipes |-> mock.recipes,
              tools_called |-> <<"generate_recipes_with_claude">>
                               \o (IF usable THEN <<"claude_api_error">> ELSE <<>>)
                               \o <<"generate_mock_recipes_fallback">>]

\* generate_recipes: the tag is "claude" if os.getenv("ANTHROPIC_API_KEY")
\* else "mock".
generate_recipes(recipe_request, api_key, llm) ==
    LET r == generate_recipes_with_claude(recipe_request, api_key, llm)
    IN  [raised |-> r.raised,
         recipes |-> r.recipes,
         tools_called |-> <<"generate_recipes">> \o r.tools_called,
         llm_provider |-> IF api_key # "" THEN "claude" ELSE "mock"]

\* A caller runs process_chat on a message.
Chat(user_message, user_profile) ==
    /\ Respond("process_chat", 200, NoToken,
               [message |-> user_message, user_profile |-> user_profile],
               process_chat(user_message, user_profile))
    /\ UNCHANGED <<dbVars, chromaVars, today, completions>>

\* The caller hands the structured_data of a complete chat answer to
\* generate_recipes; status 500 stands for an exception reaching the caller.
HandOff(api_key, llm) ==
    /\ resp.op = "process_chat"
    /\ resp.body.next_action = "generate_recipes"
    /\ LET request == resp.body.structured_data[1]
           r == generate_recipes(request, api_key, llm)
       IN  Respond("generate_recipes", IF r.raised THEN 500 ELSE 200, NoToken,
                   [request |-> request, api_key |-> api_key], r)
    /\ UNCHANGED <<dbVars, chromaVars, today, completions>>

(***************************************************************************)
(* POST /recipe                                                            *)
(***************************************************************************)
\* Any exception of the handler body is caught and answered 500.
recipe_endpoint(tok, preferences, api_key, llm) ==
    LET u == get_current_user(tok)
        user_profile == [diet |-> ""]
        r == generate_recipes([user_profile |-> user_profile, preferences |-> preferences],
                              api_key, llm)
    IN  IF u = 0 THEN Unauthorized("recipe", tok)
        ELSE IF r.raised THEN Fail("recipe", 500, tok)
        ELSE /\ Respond("recipe", 200, tok, <<>>, r.recipes)
             /\ UNCHANGED <<dbVars, chromaVars, today, completions>>

(***************************************************************************)
(* GET /daily-meals, GET /recipes, POST /recipes/save,                     *)
(* POST /recipes/{recipe_id}/favorite                                      *)
(***************************************************************************)
get_user_meal_plans(tok) ==
    LET u == get_current_user(tok)
    IN  IF u = 0 THEN Unauthorized("get_user_meal_plans", tok)
        ELSE /\ Respond("get_user_meal_plans", 200, tok, <<>>,
                        SelectSeq(plans, LAMBDA q : q.user_id = u))
             /\ UNCHANGED <<dbVars, chromaVars, today, completions>>

get_saved_recipes(tok) ==
    LET u == get_current_user(tok)
    IN  IF u = 0 THEN Unauthorized("get_saved_recipes", tok)
        ELSE /\ Respond("get_saved_recipes", 200, tok, <<>>,
                        SelectSeq(recipes, LAMBDA q : q.user_id = u))
             /\ UNCHANGED <<dbVars, chromaVars, today, completions>>

\* database.save_recipe: Recipe(user_id=user_id, **recipe_data). A body that
\* lacks the title or the meal type violates NOT NULL and the exception
\* escapes (500); a saved recipe has no vector-store document (chroma_id 0).
save_recipe_endpoint(tok, recipe_data) ==
    LET u == get_current_user(tok)
    IN  IF u = 0 THEN Unauthorized("save_recipe", tok)
        ELSE IF ~({"title", "meal_type"} \subseteq DOMAIN recipe_data)
        THEN Fail("save_recipe", 500, tok)
        ELSE /\ Len(recipes) - 3 * Len(plans) < MaxSavedRecipes
             /\ recipes' = Append(recipes,
                              [user_id |-> u, title |-> recipe_data.title,
                               meal_type |-> recipe_data.meal_type,
                               chroma_id |-> 0, is_favorite |-> FALSE])
             /\ Respond("save_recipe", 200, tok, <<>>, <<>>)
             /\ UNCHANGED <<users, profiles, plans, groceryLists, mealHistory, chromaVars,
                            today, completions>>

\* Faulty variant: the recipe is looked up by id alone.
toggle_favorite_AnyOwner(tok, recipe_id) ==
    LET u == get_current_user(tok)
    IN  IF u = 0 THEN Unauthorized("toggle_favorite", tok)
        ELSE IF recipe_id \notin 1..Len(recipes)
        THEN NotFound("toggle_favorite", tok, [recipe_id |-> recipe_id])
        ELSE /\ recipes' = [recipes EXCEPT ![recipe_id].is_favorite = ~@]
             /\ Respond("toggle_favorite", 200, tok, [recipe_id |-> recipe_id],
                        ~recipes[recipe_id].is_favorite)
             /\ UNCHANGED <<users, profiles, plans, groceryLists, mealHistory, chromaVars,
                            today, completions>>

toggle_favorite(tok, recipe_id) ==
    LET u == get_current_user(tok)
    IN  IF u = 0 THEN Unauthorized("toggle_favorite", tok)
        ELSE IF recipe_id \notin 1..Len(recipes) \/ recipes[recipe_id].user_id # u
        THEN NotFound("toggle_favorite", tok, [recipe_id |-> recipe_id])
        ELSE /\ recipes' = [recipes EXCEPT ![recipe_id].is_favorite = ~@]
             /\ Respond("toggle_favorite", 200, tok, [recipe_id |-> recipe_id],
                        ~recipes[recipe_id].is_favorite)
             /\ UNCHANGED <<users, profiles, plans, groceryLists, mealHistory, chromaVars,
                            today, completions>>

(***************************************************************************)
(* POST /meals/log, GET /meals/history, GET /stats                         *)
(***************************************************************************)
\* database.log_meal: MealHistory(user_id=user_id, **meal_data); a key that
\* is no column of the table raises TypeError, which escapes (500).
log_meal_endpoint(tok, meal_data) ==
    LET u == get_current_user(tok)
    IN  IF u = 0 THEN Unauthorized("log_meal", tok)
        ELSE IF ~(DOMAIN meal_data \subseteq {"meal_type", "recipe_title"})
        THEN Fail("log_meal", 500, tok)
        ELSE /\ Len(mealHistory) < MaxMealRows
             /\ mealHistory' = Append(mealHistory,
                                  [user_id |-> u, date |-> today, data |-> meal_data])
             /\ Respond("log_meal", 200, tok, <<>>, <<>>)
             /\ UNCHANGED <<users, profiles, recipes, plans, groceryLists, chromaVars,
                            today, completions>>

\* The meals of the user logged in the last `days` days, newest first.
get_meal_history(tok, days) ==
    LET u == get_current_user(tok)
        mine == SelectSeq(mealHistory, LAMBDA h : h.user_id = u /\ h.date >= today - days)
    IN  IF u = 0 THEN Unauthorized("get_meal_history", tok)
        ELSE /\ Respond("get_meal_history", 200, tok, <<>>,
                        [i \in 1..Len(mine) |-> mine[Len(mine) + 1 - i]])
             /\ UNCHANGED <<dbVars, chromaVars, today, completions>>

get_user_stats(tok) ==
    LET u == get_current_user(tok)
        mine(table) == Len(SelectSeq(table, LAMBDA q : q.user_id = u))
    IN  IF u = 0 THEN Unauthorized("get_user_stats", tok)
        ELSE /\ Respond("get_user_stats", 200, tok, <<>>,
                        [total_recipes |-> mine(recipes),
                         favorite_recipes |->
                             Len(SelectSeq(recipes, LAMBDA q : q.user_id = u /\ q.is_favorite)),
                         total_grocery_lists |-> mine(groceryLists),
                         total_meals_logged |-> mine(mealHistory)])
             /\ UNCHANGED <<dbVars, chromaVars, today, completions>>

(***************************************************************************)
(* Parsing of the completion text in generate_daily_meals_with_claude.     *)
(***************************************************************************)
\* A completion text is a sequence of at most MaxSegments segments. A segment
\* is a payload, bare or inside a ```json fence or a plain ``` fence. A
\* payload is a JSON object with some of the meal keys (`id` tells objects
\* apart), a JSON array or scalar without braces, a braced text that is not
\* JSON, or words (no braces, not JSON).
MaxSegments == 2
MealKeys == {"breakfast", "lunch", "dinner"}
JsonObject(keys, id) == [kind |-> "object", keys |-> keys, id |-> id]
NotObject(kind) == [kind |-> kind, keys |-> {}, id |-> 0]
Payloads ==
    {JsonObject(MealKeys, 1), JsonObject(MealKeys, 2), JsonObject({"breakfast", "lunch"}, 3),
     NotObject("array"), NotObject("scalar"), NotObject("invalid"), NotObject("words")}
ResponseTexts ==
    LET Segments == [wrap : {"bare", "json_fence", "fence"}, payload : Payloads]
    IN  UNION {[1..n -> Segments] : n \in 0..MaxSegments}

\* json.loads(response_text): the text must be exactly one JSON value.
json_loads(response_text) ==
    IF /\ Len(response_text) = 1
       /\ response_text[1].wrap = "bare"
       /\ response_text[1].payload.kind \in {"object", "array", "scalar"}
    THEN Some(response_text[1].payload)
    ELSE None

\* candidate.startswith('{') and candidate.endswith('}')
Braced(candidate) == candidate.kind \in {"object", "invalid"}

\* re.findall(r'```json\s*(.*?)\s*```', ...): the contents of the json fences.
json_blocks(response_text) ==
    LET fenced == SelectSeq(response_text, LAMBDA g : g.wrap = "json_fence")
    IN  [i \in 1..Len(fenced) |-> fenced[i].payload]

\* re.findall(r'```\s*(.*?)\s*```', ...): the contents of every fence; for a
\* json fence the capture begins with the word "json".
code_blocks(response_text) ==
    LET fenced == SelectSeq(response_text, LAMBDA g : g.wrap # "bare")
    IN  [i \in 1..Len(fenced) |->
            IF fenced[i].wrap = "json_fence" THEN NotObject("words") ELSE fenced[i].payload]

\* re.findall(r'\{.*\}', ..., re.DOTALL): greedy, so at most one match, from
\* the first '{' to the last '}' of the text.
json_objects(response_text) ==
    LET braced == SelectSeq(response_text, LAMBDA g : Braced(g.payload))
    IN  IF Len(braced) = 0 THEN <<>>
        ELSE IF Len(braced) = 1 THEN <<braced[1].payload>>
        ELSE <<NotObject("invalid")>>

\* The loop over json_candidates: the first braced candidate that parses and
\* has the three meal keys, else None.
RECURSIVE FirstMealsCandidate(_)
FirstMealsCandidate(json_candidates) ==
    IF json_candidates = <<>> THEN None
    ELSE LET candidate == Head(json_candidates)
         IN  IF candidate.kind = "object" /\ MealKeys \subseteq candidate.keys
             THEN Some(candidate)
             ELSE FirstMealsCandidate(Tail(json_candidates))

\* The fixed three-meal payload (eggs / rice / chicken).
MockMeals == JsonObject(MealKeys, 0)

\* recipes_data as lines 162-243 leave it.
parse_recipes_data(response_text) ==
    LET direct == json_loads(response_text)
        found == FirstMealsCandidate(json_blocks(response_text) \o code_blocks(response_text)
                                     \o json_objects(response_text))
    IN  IF direct # None THEN direct[1]
        ELSE IF found # None THEN found[1]
        ELSE MockMeals

\* recipes_data["breakfast"], ["lunch"], ["dinner"] (lines 246-248): a
\* TypeError or KeyError unless recipes_data is an object with the three keys.
meals_of_completion(response_text) ==
    LET recipes_data == parse_recipes_data(response_text)
    IN  [raised |-> ~(recipes_data.kind = "object" /\ MealKeys \subseteq recipes_data.keys),
         recipes_data |-> recipes_data]

(***************************************************************************)
(* calculate_target_macros (recipe agent) and validate_macro_targets       *)
(* (daily meals).                                                          *)
(***************************************************************************)
\* Faulty variant: the amount is cut, not rounded.
RoundHalfEven_Floor(amount, unit) == amount \div unit

\* Python's round(): the multiple of `unit` nearest to `amount`, a tie going
\* to the even multiple.
RoundHalfEven(amount, unit) ==
    LET q == amount \div unit
        r == amount % unit
    IN  IF 2 * r < unit THEN q
        ELSE IF 2 * r > unit THEN q + 1
        ELSE IF q % 2 = 0 THEN q ELSE q + 1

\* Daily targets are counted in hundredths (of a gram, of a kcal). The
\* profiles range over MaxTargetSteps consecutive hundredths above the
\* defaults of calculate_target_macros.
MaxTargetSteps == 150
TargetProfiles ==
    {[protein_g |-> 14000 + t, carbs_g |-> 20000 + t, fat_g |-> 5000 + t,
      calories |-> 180000 + t] : t \in 0..MaxTargetSteps}

\* meal_distribution.get(meal_type, 0.33), in percent.
meal_distribution(meal_type) ==
    CASE meal_type = "breakfast" -> 25
      [] meal_type = "lunch" -> 35
      [] meal_type = "dinner" -> 30
      [] meal_type = "snack" -> 10
      [] OTHER -> 33

\* The per-meal targets: gram macros in tenths of a gram (round(x, 1)),
\* calories in whole kcal (round(x, 0)).
calculate_target_macros(target_macros, meal_type) ==
    LET ratio == meal_distribution(meal_type)
    IN  [protein_g |-> RoundHalfEven(target_macros.protein_g * ratio, 1000),
         carbs_g |-> RoundHalfEven(target_macros.carbs_g * ratio, 1000),
         fat_g |-> RoundHalfEven(target_macros.fat_g * ratio, 1000),
         calories |-> RoundHalfEven(target_macros.calories * ratio, 10000)]

\* Totals and targets handed to validate_macro_targets, in grams.
MaxMacro == 40

\* Faulty variant: a deviation of exactly 10% is not met.
ValidateOne_Strict(actual, target) ==
    IF target # None /\ target[1] # 0
    THEN [target |-> target, actual |-> actual,
          met |-> Some(IF actual >= target[1]
                       THEN (actual - target[1]) * 10 < target[1]
                       ELSE (target[1] - actual) * 10 < target[1]),
          percentage |-> Some(RoundHalfEven(actual * 100, target[1]))]
    ELSE [target |-> target, actual |-> actual, met |-> None, percentage |-> None]

\* One entry of the validation dict: `if target:` is false for None and 0.
ValidateOne(actual, target) ==
    IF target # None /\ target[1] # 0
    THEN [target |-> target, actual |-> actual,
          met |-> Some(IF actual >= target[1]
                       THEN (actual - target[1]) * 10 <= target[1]
                       ELSE (target[1] - actual) * 10 <= target[1]),
          percentage |-> Some(RoundHalfEven(actual * 100, target[1]))]
    ELSE [target |-> target, actual |-> actual, met |-> None, percentage |-> None]

validate_macro_targets(actual_protein, actual_carbs, actual_fat, target_protein, target_carbs, target_fat) ==
    [protein |-> ValidateOne(actual_protein, target_protein),
     carbs |-> ValidateOne(actual_carbs, target_carbs),
     fat |-> ValidateOne(actual_fat, target_fat)]

(***************************************************************************)
(* Grocery agent: the message handler and the synchronous wrapper.         *)
(***************************************************************************)
\* An ingredient in the old dict format: no "unit" key, the quantity a text
\* such as "200g".
OldFormatIngredient(name, quantity_str) ==
    [name |-> name, quantity |-> 1, quantity_str |-> quantity_str]

\* Recipes a caller hands to the grocery agent (recipe: Dict[str, Any]).
MaxIngredients == 2
AgentIngredients ==
    {Ingredient("rice", 2), Ingredient("tofu", 1), OldFormatIngredient("rice", "200g"),
     OldFormatIngredient("rice", "1.5.2"), OldFormatIngredient("tofu", "a pinch"),
     OldFormatIngredient("rice", "2.5 kg"), OldFormatIngredient("tofu", "."),
     OldFormatIngredient("tofu", "3"), OldFormatIngredient("tofu", "abc"),
     OldFormatIngredient("rice", "1.2.3")}
AgentRecipes == UNION {[1..n -> AgentIngredients] : n \in 0..MaxIngredients}

\* The quantity and unit of an ingredient as the loop of create_grocery_list
\* takes them; quantities are counted in thousandths. For the old format:
\* re.match(r"([\d.]+)\s*([a-zA-Z]*)", quantity_str), float(match.group(1))
\* and match.group(2) or "unit". The pattern accepts any run of digits and
\* dots, and float() raises ValueError on a run that is no numeral ("1.5.2",
\* "."); a text that does not start with a digit or a dot counts as 1 "unit".
ParseQuantity(ingredient) ==
    IF "quantity_str" \notin DOMAIN ingredient
    THEN [raised |-> FALSE, quantity |-> 1000 * ingredient.quantity, unit |-> ""]
    ELSE
    LET s == ingredient.quantity_str
        At(k) == SubSeq(s, k, k)
        In(c, alphabet) == \E k \in 1..Len(alphabet) : SubSeq(alphabet, k, k) = c
        IsNum(k) == In(At(k), "0123456789.")
        IsLetter(k) == In(At(k), "abcdefghijklmnopqrstuvwxyzABCDEFGHIJKLMNOPQRSTUVWXYZ")
        \* group 1: the longest run of digits and dots at the start
        n == CHOOSE n \in 0..Len(s) :
                /\ \A k \in 1..n : IsNum(k)
                /\ n = Len(s) \/ ~IsNum(n + 1)
        \* \s*: the spaces after it
        b == CHOOSE b \in n..Len(s) :
                /\ \A k \in (n + 1)..b : At(k) = " "
                /\ b = Len(s) \/ At(b + 1) # " "
        \* group 2: the longest run of letters after them
        e == CHOOSE e \in b..Len(s) :
                /\ \A k \in (b + 1)..e : IsLetter(k)
                /\ e = Len(s) \/ ~IsLetter(e + 1)
        dots == {k \in 1..n : At(k) = "."}
        point == IF dots = {} THEN n + 1 ELSE CHOOSE k \in dots : TRUE
        Digit(k) == (CHOOSE d \in 1..10 : SubSeq("0123456789", d, d) = At(k)) - 1
        Pow10(x) == CASE x = 0 -> 1 [] x = 1 -> 10 [] x = 2 -> 100 [] x = 3 -> 1000
                      [] x = 4 -> 10000 [] x = 5 -> 100000 [] OTHER -> 1000000
        \* float(): whole part, and the first three decimals
        Whole == LET RECURSIVE Sum(_)
                     Sum(k) == IF k >= point THEN 0
                               ELSE Digit(k) * Pow10(point - 1 - k) + Sum(k + 1)
                 IN  Sum(1)
        Milli == LET RECURSIVE Sum(_)
                     Sum(k) == IF k > n \/ k > point + 3 THEN 0
                               ELSE Digit(k) * Pow10(3 - (k - point)) + Sum(k + 1)
                 IN  Sum(point + 1)
    IN  IF n = 0 THEN [raised |-> FALSE, quantity |-> 1000, unit |-> "unit"]
        ELSE IF Cardinality(dots) > 1 \/ Cardinality(dots) = n
        THEN [raised |-> TRUE, quantity |-> 0, unit |-> ""]
        ELSE [raised |-> FALSE, quantity |-> 1000 * Whole + Milli,
              unit |-> IF e = b THEN "unit" ELSE SubSeq(s, b + 1, e)]

\* create_grocery_list with the exception its loop can raise.
create_grocery_list_checked(kroger, recipe) ==
    LET parsed == [i \in 1..Len(recipe) |-> ParseQuantity(recipe[i])]
    IN  IF \E i \in 1..Len(recipe) : parsed[i].raised
        THEN [raised |-> TRUE]
        ELSE [raised |-> FALSE,
              grocery_data |->
                  create_grocery_list(kroger,
                      [i \in 1..Len(recipe) |-> Ingredient(recipe[i].name, parsed[i].quantity)])]

\* GroceryResponse(...)
GroceryResponse(items, total_estimated_cost, kroger_items_found, total_items, message, next_action) ==
    [items |-> items, total_estimated_cost |-> total_estimated_cost,
     kroger_items_found |-> kroger_items_found, total_items |-> total_items,
     message |-> message, next_action |-> next_action]

\* handle_grocery_request: the message sent back to the sender.
handle_grocery_request(kroger, recipe) ==
    LET r == create_grocery_list_checked(kroger, recipe)
    IN  IF r.raised
        THEN [raised |-> FALSE,
              response |-> GroceryResponse(<<>>, 0, 0, 0, "Sorry, I encountered an error",
                                           "retry")]
        ELSE [raised |-> FALSE,
              response |-> GroceryResponse(r.grocery_data.items,
                                           r.grocery_data.total_estimated_cost,
                                           r.grocery_data.kroger_items_found,
                                           r.grocery_data.total_items,
                                           "Created grocery list", "review_order")]

\* generate_grocery_list: no try block, an exception of create_grocery_list
\* reaches the caller.
generate_grocery_list_checked(kroger, recipe) ==
    LET r == create_grocery_list_checked(kroger, recipe)
    IN  IF r.raised THEN [raised |-> TRUE]
        ELSE [raised |-> FALSE,
              response |-> [items |-> r.grocery_data.items,
                            total_estimated_cost |-> r.grocery_data.total_estimated_cost,
                            kroger_items_found |-> r.grocery_data.kroger_items_found,
                            total_items |-> r.grocery_data.total_items,
                            message |-> "Created grocery list",
                            next_action |-> "review_order"]]

(***************************************************************************)
(* Grocery agent: ingredient categories (agents/grocery_agent/agent.py).   *)
(***************************************************************************)
\* str.lower(), letter by letter.
RECURSIVE lower(_)
lower(s) ==
    LET upper == "ABCDEFGHIJKLMNOPQRSTUVWXYZ"
        small == "abcdefghijklmnopqrstuvwxyz"
        c == SubSeq(s, 1, 1)
        hits == {i \in 1..Len(upper) : SubSeq(upper, i, i) = c}
    IN  IF s = "" THEN ""
        ELSE (IF hits = {} THEN c
              ELSE LET i == CHOOSE i \in hits : TRUE IN SubSeq(small, i, i))
             \o lower(SubSeq(s, 2, Len(s)))

\* `key in text` on strings: key occurs in text as a substring.
Contains(key, text) ==
    \E i \in 1..(Len(text) - Len(key) + 1) : SubSeq(text, i, i + Len(key) - 1) = key

\* The dict CATEGORY_MAP in its insertion order, which is the order in which
\* .items() yields it.
CATEGORY_MAP ==
    << <<"paneer", "Dairy">>, <<"cottage cheese", "Dairy">>, <<"yogurt", "Dairy">>,
       <<"quinoa", "Grains">>, <<"brown rice", "Grains">>, <<"whole wheat flour", "Grains">>,
       <<"bell peppers", "Produce">>, <<"onions", "Produce">>, <<"sweet potato", "Produce">>,
       <<"spinach", "Produce">>, <<"tomatoes", "Produce">>, <<"green chilies", "Produce">>,
       <<"chickpeas", "Canned Goods">>, <<"toor dal", "Grains & Beans">>,
       <<"split pigeon peas", "Grains & Beans">>, <<"tahini", "Condiments">>,
       <<"ginger-garlic paste", "Condiments">>, <<"garam masala", "Spices">>,
       <<"turmeric", "Spices">>, <<"cumin", "Spices">>, <<"cumin seeds", "Spices">>,
       <<"chili powder", "Spices">>, <<"ghee", "Cooking Oils">> >>

\* Faulty variant: only the exact key is looked up.
categorize_ingredient_ExactOnly(ingredient_name) ==
    LET ingredient_lower == lower(ingredient_name)
        exact == First({i \in 1..Len(CATEGORY_MAP) : CATEGORY_MAP[i][1] = ingredient_lower})
    IN  IF exact # 0 THEN CATEGORY_MAP[exact][2] ELSE "Other"

categorize_ingredient(ingredient_name) ==
    LET ingredient_lower == lower(ingredient_name)
        exact == First({i \in 1..Len(CATEGORY_MAP) : CATEGORY_MAP[i][1] = ingredient_lower})
        partial == First({i \in 1..Len(CATEGORY_MAP) :
                             Contains(CATEGORY_MAP[i][1], ingredient_lower)})
    IN  IF exact # 0 THEN CATEGORY_MAP[exact][2]
        ELSE IF partial # 0 THEN CATEGORY_MAP[partial][2]
        ELSE "Other"

(***************************************************************************)
(* Grocery agent: product search (agents/grocery_agent/agent.py).          *)
(***************************************************************************)
\* _get_search_strategies: the searches to try for an ingredient, in order.
\* Each is recorded with its kind (the part of strategy_name before the brand
\* or the alternative name), its filter.term and its filter.limit.
get_search_strategies(ingredient_name) ==
    LET ingredient_lower == lower(ingredient_name)
        Strategy(kind, term, limit) == [kind |-> kind, term |-> term, limit |-> limit]
        brand_mappings ==
            << <<"milk", <<"organic valley", "horizon", "kroger">> >>,
               <<"bread", <<"wonder", "sara lee", "kroger">> >>,
               <<"chicken", <<"tyson", "perdue", "kroger">> >>,
               <<"eggs", <<"eggland's best", "kroger">> >>,
               <<"cheese", <<"kraft", "sargento", "kroger">> >>,
               <<"yogurt", <<"chobani", "yoplait", "kroger">> >>,
               <<"rice", <<"minute rice", "uncle ben's", "kroger">> >>,
               <<"pasta", <<"barilla", "ronzoni", "kroger">> >> >>
        alternative_names ==
            << <<"paneer", <<"cottage cheese", "farmer cheese">> >>,
               <<"quinoa", <<"quinoa grain", "organic quinoa">> >>,
               <<"ghee", <<"clarified butter", "butter oil">> >>,
               <<"garam masala", <<"indian spice blend", "curry powder">> >>,
               <<"turmeric", <<"turmeric powder", "curcumin">> >>,
               <<"cumin", <<"cumin seeds", "ground cumin">> >>,
               <<"chickpeas", <<"garbanzo beans", "chana">> >>,
               <<"toor dal", <<"pigeon peas", "split peas">> >>,
               <<"moong dal", <<"mung beans", "green lentils">> >> >>
        \* for key, values in table.items(): if key in ingredient_lower: ...; break
        FirstHit(table) ==
            LET i == First({i \in 1..Len(table) : Contains(table[i][1], ingredient_lower)})
            IN  IF i = 0 THEN <<>> ELSE table[i][2]
        brands == FirstHit(brand_mappings)
        alternatives == FirstHit(alternative_names)
        exact == <<Strategy("exact_term", ingredient_name, 5)>>
        category == IF categorize_ingredient(ingredient_name) # "Other"
                    THEN <<Strategy("category_search", ingredient_name, 5)>>
                    ELSE <<>>
        brand == [i \in 1..Len(brands) |->
                    Strategy("brand", brands[i] \o " " \o ingredient_name, 3)]
        alternative == [i \in 1..Len(alternatives) |-> Strategy("alternative", alternatives[i], 3)]
        strategies == exact \o category \o brand \o alternative
    IN  IF Len(strategies) < 3
        THEN Append(strategies, Strategy("generic_search", ingredient_name \o " grocery", 5))
        ELSE strategies

\* _find_best_product_match: the product with the highest score, the earliest
\* among equals (list.sort is stable); None (0) when no product scores.
find_best_product_match(products, ingredient_name) ==
    LET ingredient_lower == lower(ingredient_name)
        \* str.split(): the maximal runs of characters other than spaces
        Words(s) ==
            {SubSeq(s, i, j) : <<i, j>> \in
                {p \in (1..Len(s)) \X (1..Len(s)) :
                    /\ p[1] <= p[2]
                    /\ \A k \in p[1]..p[2] : SubSeq(s, k, k) # " "
                    /\ (p[1] = 1 \/ SubSeq(s, p[1] - 1, p[1] - 1) = " ")
                    /\ (p[2] = Len(s) \/ SubSeq(s, p[2] + 1, p[2] + 1) = " ")}}
        Score(product) ==
            LET product_name == lower(product.description)
                brand == lower(product.brand)
            IN  (IF product.price # None THEN 10 ELSE 0)
                + (IF Contains(ingredient_lower, product_name) THEN 5 ELSE 0)
                + (IF Contains(product_name, ingredient_lower) THEN 3 ELSE 0)
                + 2 * Cardinality(Words(ingredient_lower) \cap Words(product_name))
                + (IF Contains("kroger", brand) \/ Contains("private selection", brand)
                   THEN 1 ELSE 0)
        scored == {i \in 1..Len(products) : Score(products[i]) > 0}
    IN  First({i \in scored : \A j \in scored : Score(products[j]) <= Score(products[i])})

\* Faulty variant: the loop ends at a request that raises.
search_kroger_attempts_StopOnError(ingredient_name, token, outcomes) ==
    LET search_strategies == get_search_strategies(ingredient_name)
        Best(i) == IF outcomes[i].status # "200" THEN 0
                   ELSE find_best_product_match(outcomes[i].data, ingredient_name)
        hit == First({i \in 1..Len(search_strategies) :
                         Best(i) # 0 \/ outcomes[i].status = "error"})
    IN  IF token = None THEN [issued |-> <<>>, result |-> None]
        ELSE IF hit = 0 THEN [issued |-> search_strategies, result |-> None]
        ELSE [issued |-> SubSeq(search_strategies, 1, hit),
              result |-> IF Best(hit) = 0 THEN None
                         ELSE LET best_product == outcomes[hit].data[Best(hit)]
                              IN  Some(Product(best_product.description, best_product.price))]

\* search_kroger_product with the responses of its requests: outcomes[i] is
\* what the i-th request does when it is made: its status is "error"
\* (requests.get raises), "non200" or "200", and its data is the list of
\* products of a 200 response. The loop issues the
\* strategies in order until one yields a best match; `issued` is the list of
\* those it has made.
search_kroger_attempts(ingredient_name, token, outcomes) ==
    LET search_strategies == get_search_strategies(ingredient_name)
        Best(i) == IF outcomes[i].status # "200" THEN 0
                   ELSE find_best_product_match(outcomes[i].data, ingredient_name)
        hit == First({i \in 1..Len(search_strategies) : Best(i) # 0})
    IN  IF token = None THEN [issued |-> <<>>, result |-> None]
        ELSE IF hit = 0 THEN [issued |-> search_strategies, result |-> None]
        ELSE LET best_product == outcomes[hit].data[Best(hit)]
             IN  [issued |-> SubSeq(search_strategies, 1, hit),
                  result |-> Some(Product(best_product.description, best_product.price))]

(***************************************************************************)
(* Grocery agent: the OAuth token cache (get_kroger_token).                *)
(***************************************************************************)
\* `_kroger_token and _token_expiry and datetime.now() < _token_expiry`
CacheValid_UntilExpiryInclusive ==
    kroger_token # None /\ token_expiry # None /\ now <= token_expiry[1]

CacheValid ==
    kroger_token # None /\ token_expiry # None /\ now < token_expiry[1]

\* One step of the call c of get_kroger_token: the checks of the credentials
\* and of the cache up to requests.post; the answer of the server up to the
\* assignment of _kroger_token; the assignment of _token_expiry and the
\* return. outcome is what the server answers: a transport error, a status
\* other than 200, or a token (its identity is the number of the request)
\* with or without expires_in. tokenLog keeps, for each request, the answer
\* and the time at which its expiry was computed.
get_kroger_token_step(c, outcome) ==
    LET me == calls[c]
        Return(v) ==
            calls' = [calls EXCEPT ![c] = [pc |-> "idle", request |-> 0, expires_in |-> 0, ret |-> v]]
    IN  /\ kroger_env # None
        /\ CASE me.pc = "idle" ->
                  IF \/ kroger_env[1].id = "" \/ kroger_env[1].secret = ""
                     \/ kroger_env[1].id = "your_kroger_client_id_here"
                  THEN /\ Return(None)
                       /\ UNCHANGED <<kroger_token, token_expiry, tokenLog>>
                  ELSE IF CacheValid
                  THEN /\ Return(kroger_token)
                       /\ UNCHANGED <<kroger_token, token_expiry, tokenLog>>
                  ELSE /\ Len(tokenLog) < MaxTokenRequests
                       /\ tokenLog' = Append(tokenLog, [status |-> "pending", expires_in |-> None,
                                                        stored |-> None])
                       /\ calls' = [calls EXCEPT ![c] = [pc |-> "requests.post",
                                                         request |-> Len(tokenLog) + 1,
                                                         expires_in |-> 0, ret |-> None]]
                       /\ UNCHANGED <<kroger_token, token_expiry>>
             [] me.pc = "requests.post" ->
                  /\ tokenLog' = [tokenLog EXCEPT ![me.request].status = outcome.status,
                                                  ![me.request].expires_in = outcome.expires_in]
                  /\ IF outcome.status = "200"
                     THEN /\ kroger_token' = Some(me.request)
                          /\ calls' = [calls EXCEPT ![c].pc = "_token_expiry",
                                                    ![c].expires_in =
                                                        IF outcome.expires_in = None THEN 1800
                                                        ELSE outcome.expires_in[1]]
                          /\ UNCHANGED token_expiry
                     ELSE /\ Return(None)
                          /\ UNCHANGED <<kroger_token, token_expiry>>
             [] me.pc = "_token_expiry" ->
                  /\ token_expiry' = Some(now + me.expires_in - 60)
                  /\ tokenLog' = [tokenLog EXCEPT ![me.request].stored = Some(now)]
                  /\ Return(kroger_token)
                  /\ UNCHANGED kroger_token
        /\ UNCHANGED <<dbVars, chromaVars, today, completions, resp, kroger_env, now>>

Init ==
    /\ users = <<>>
    /\ profiles = <<>>
    /\ recipes = <<>>
    /\ plans = <<>>
    /\ groceryLists = <<>>
    /\ mealHistory = <<>>
    /\ prefDocs = <<>>
    /\ recipeDocs = <<>>
    /\ today = 1
    /\ completions = 0
    /\ resp = [op |-> "startup", status |-> 200, tok |-> NoToken, req |-> <<>>, body |-> <<>>]
    /\ kroger_env = None
    /\ kroger_token = None
    /\ token_expiry = None
    /\ now = 0
    /\ calls = [c \in {"A", "B"} |-> [pc |-> "idle", request |-> 0, expires_in |-> 0, ret |-> None]]
    /\ tokenLog = <<>>

\* The calendar date advances.
NextDay ==
    /\ today < MaxDay
    /\ today' = today + 1
    /\ UNCHANGED <<dbVars, chromaVars, completions, resp>>
    /\ UNCHANGED <<kroger_env, kroger_token, token_expiry, now, calls, tokenLog>>

Register ==
    \E e \in Emails, n \in Usernames, pw \in Passwords, p \in RegProfiles :
        register(e, n, pw, p)

\* Sign-ups of clients that each use their own email and username.
SignUp ==
    \E e \in Emails \cap Usernames :
        register(e, e, "hunter22", [daily_calories |-> 2000, target_protein_g |-> None])

Login == \E e \in Emails, pw \in Passwords : login(e, pw)

GetProfile == \E tok \in TokenInputs : get_profile(tok)

UpdateProfile == \E tok \in TokenInputs, patch \in ProfilePatches : update_profile(tok, patch)

GenerateDailyMeals ==
    \E tok \in TokenInputs, day \in DayInputs, llm \in LLMOutcomes :
        generate_daily_meals(tok, day, llm, "none")

GenerateDailyMealsByDay ==
    \E tok \in TokenInputs, day \in DayInputs, llm \in LLMOutcomes :
        generate_daily_meals_by_day(tok, day, llm, "none")

\* A generation request during which a write to the vector store or to the
\* database raises.
GenerateDailyMealsFault ==
    \E tok \in TokenInputs, llm \in LLMOutcomes :
        \/ \E fault \in {"store_recipe", "commit"} :
               generate_daily_meals(tok, "Monday", llm, fault)
        \/ \E fault \in {"store_recipe", "commit_recipes", "commit_plan", "restore"} :
               generate_daily_meals_by_day(tok, "Monday", llm, fault)

RegenerateMeal ==
    \E tok \in TokenInputs, date \in Dates, m \in MealTypes, llm \in LLMOutcomes :
        regenerate_meal(tok, date, m, llm)

GetDailyMeals == \E tok \in TokenInputs, date \in Dates : get_daily_meals(tok, date)

SubmitMealFeedback ==
    \E tok \in TokenInputs, f \in FeedbackInputs :
        submit_meal_feedback(tok, today, f.disliked, f.liked)

Grocery ==
    \E tok \in TokenInputs, recipe \in RecipeInputs, kroger \in KrogerInputs :
        grocery_endpoint(tok, recipe, kroger)

GroceryFromRecipe ==
    \E tok \in TokenInputs, recipe \in RecipeInputs, kroger \in KrogerInputs :
        create_grocery_list_from_recipe(tok, recipe, kroger)

GetGroceryLists == \E tok \in TokenInputs : get_grocery_lists(tok)

CompleteGroceryList ==
    \E tok \in TokenInputs, list_id \in 1..MaxListRows : complete_grocery_list(tok, list_id)

\* The "diet" of the user profile load_user_profile returns is "" when the
\* profile has none or cannot be loaded.
ProcessChat ==
    \E msg \in Messages, diet \in {"vegetarian", "vegan", ""} : Chat(msg, [diet |-> diet])

GenerateRecipes == \E key \in ApiKeys, llm \in RecipeLLMOutcomes : HandOff(key, llm)

PublicInfo ==
    \E op \in {"root", "health", "agents_metadata"}, tok \in TokenInputs : public_info(op, tok)

RecipeEndpoint ==
    \E tok \in TokenInputs,
       pr \in {[meal_type |-> Some("dinner"), cook_time |-> Some("15-30 mins"),
                cuisine |-> c, dietary_restrictions |-> "vegetarian"] : c \in {None, Some("indian")}},
       key \in {"", "sk-key"} :
        recipe_endpoint(tok, pr, key, [ok |-> TRUE, n |-> 4])

\* The grocery and regenerate routes with one request body each.
GroceryProbe ==
    \E tok \in TokenInputs, kroger \in KrogerInputs :
        grocery_endpoint(tok, <<Ingredient("rice", 2)>>, kroger)

GroceryFromRecipeProbe ==
    \E tok \in TokenInputs, kroger \in KrogerInputs :
        create_grocery_list_from_recipe(tok, <<Ingredient("rice", 2)>>, kroger)

RegenerateProbe ==
    \E tok \in TokenInputs, llm \in LLMOutcomes : regenerate_meal(tok, today, "lunch", llm)

GetUserMealPlans == \E tok \in TokenInputs : get_user_meal_plans(tok)

GetSavedRecipes == \E tok \in TokenInputs : get_saved_recipes(tok)

\* Bodies of POST /recipes/save and POST /meals/log are free-form dicts.
SaveRecipe ==
    \E tok \in TokenInputs, d \in {[title |-> "Saved", meal_type |-> "lunch"], [name |-> "Saved"]} :
        save_recipe_endpoint(tok, d)

ToggleFavorite ==
    \E tok \in TokenInputs, recipe_id \in 1..(3 * MaxPlanRows) : toggle_favorite(tok, recipe_id)

LogMeal ==
    \E tok \in TokenInputs, d \in {[meal_type |-> "lunch", recipe_title |-> "Saved"], [food |-> "Saved"]} :
        log_meal_endpoint(tok, d)

GetMealHistory == \E tok \in TokenInputs, days \in {0, 7} : get_meal_history(tok, days)

GetUserStats == \E tok \in TokenInputs : get_user_stats(tok)

\* The routes that write recipe, plan, grocery-list and meal-history rows,
\* for two users; OwnerLoad counts the plans, the recipes outside a freshly
\* generated plan, the grocery lists and the logged meals.
OwnerLoad == Len(plans) + (Len(recipes) - 3 * Len(plans)) + Len(groceryLists) + Len(mealHistory)

NextOwner ==
    \/ SignUp
    \/ OwnerLoad < MaxOwnerLoad /\ GenerateDailyMeals
    \/ OwnerLoad < MaxOwnerLoad /\ RegenerateMeal
    \/ OwnerLoad < MaxOwnerLoad /\ SaveRecipe
    \/ ToggleFavorite
    \/ OwnerLoad < MaxOwnerLoad /\ GroceryProbe
    \/ CompleteGroceryList
    \/ OwnerLoad < MaxOwnerLoad /\ LogMeal

SpecOwner == Init /\ [][NextOwner]_vars

\* The account routes.
Next ==
    \/ Register
    \/ Login
    \/ GetProfile
    \/ UpdateProfile

Spec == Init /\ [][Next]_vars

\* The meal-planning routes.
NextMeals ==
    \/ NextDay
    \/ SignUp
    \/ GenerateDailyMeals
    \/ GenerateDailyMealsByDay
    \/ RegenerateMeal
    \/ GetDailyMeals
    \/ SubmitMealFeedback

SpecMeals == Init /\ [][NextMeals]_vars

\* The two generation routes, with requests during which a write raises.
NextMealFaults ==
    \/ SignUp
    \/ GenerateDailyMeals
    \/ GenerateDailyMealsByDay
    \/ GenerateDailyMealsFault

SpecMealFaults == Init /\ [][NextMealFaults]_vars

\* The grocery routes.
NextGrocery ==
    \/ SignUp
    \/ Grocery
    \/ GroceryFromRecipe
    \/ GetGroceryLists
    \/ CompleteGroceryList

SpecGrocery == Init /\ [][NextGrocery]_vars

\* The chat component and the recipe generator it hands off to.
NextChat ==
    \/ ProcessChat
    \/ GenerateRecipes

SpecChat == Init /\ [][NextChat]_vars

\* Every route of the gateway. To keep the state space finite the gateway
\* serves requests only while the tables hold fewer than MaxAuthLoad rows.
AuthLoad == Len(users) + Len(recipes) + Len(groceryLists) + Len(mealHistory)

NextAuth ==
    \/ SignUp
    \/ AuthLoad < MaxAuthLoad /\ PublicInfo
    \/ AuthLoad < MaxAuthLoad /\ Login
    \/ AuthLoad < MaxAuthLoad /\ GetProfile
    \/ AuthLoad < MaxAuthLoad /\ UpdateProfile
    \/ AuthLoad < MaxAuthLoad /\ RecipeEndpoint
    \/ AuthLoad < MaxAuthLoad /\ GroceryProbe
    \/ AuthLoad < MaxAuthLoad /\ GroceryFromRecipeProbe
    \/ AuthLoad < MaxAuthLoad /\ GetGroceryLists
    \/ AuthLoad < MaxAuthLoad /\ CompleteGroceryList
    \/ AuthLoad < MaxAuthLoad /\ GenerateDailyMeals
    \/ AuthLoad < MaxAuthLoad /\ GenerateDailyMealsByDay
    \/ AuthLoad < MaxAuthLoad /\ RegenerateProbe
    \/ AuthLoad < MaxAuthLoad /\ SubmitMealFeedback
    \/ AuthLoad < MaxAuthLoad /\ GetDailyMeals
    \/ AuthLoad < MaxAuthLoad /\ GetUserMealPlans
    \/ AuthLoad < MaxAuthLoad /\ GetSavedRecipes
    \/ AuthLoad < MaxAuthLoad /\ SaveRecipe
    \/ AuthLoad < MaxAuthLoad /\ ToggleFavorite
    \/ AuthLoad < MaxAuthLoad /\ LogMeal
    \/ AuthLoad < MaxAuthLoad /\ GetMealHistory
    \/ AuthLoad < MaxAuthLoad /\ GetUserStats

SpecAuth == Init /\ [][NextAuth]_vars

\* The pure computations of the recipe agent. Each is a function of its
\* arguments alone, so one application from the initial state covers it.
ParseCompletion ==
    \E response_text \in ResponseTexts :
        LET r == meals_of_completion(response_text)
        IN  /\ resp.op = "startup"
            /\ Respond("parse_completion", IF r.raised THEN 500 ELSE 200, NoToken,
                       [response_text |-> response_text], r)
            /\ UNCHANGED <<dbVars, chromaVars, today, completions>>

CalculateTargetMacros ==
    \E target_macros \in TargetProfiles :
        /\ resp.op = "startup"
        /\ Respond("target_macros", 200, NoToken, target_macros,
                   [meal_type \in {"breakfast", "lunch", "dinner", "snack"} |->
                       calculate_target_macros(target_macros, meal_type)])
        /\ UNCHANGED <<dbVars, chromaVars, today, completions>>

ValidateMacroTargets ==
    \E actual \in 0..(MaxMacro + 10), target \in {None} \cup {Some(t) : t \in 0..MaxMacro},
       target_carbs \in {None, Some(10)} :
        /\ resp.op = "startup"
        /\ Respond("validate_macros", 200, NoToken, <<>>,
                   validate_macro_targets(actual, actual, MaxMacro - 4,
                                          target, target_carbs, target))
        /\ UNCHANGED <<dbVars, chromaVars, today, completions>>

NextCalc ==
    \/ ParseCompletion
    \/ CalculateTargetMacros
    \/ ValidateMacroTargets

SpecCalc == Init /\ [][NextCalc]_vars

\* The grocery agent is sent a request, or its wrapper is called; status 500
\* stands for an exception reaching the caller.
HandleGroceryRequest ==
    \E kroger \in KrogerInputs, recipe \in AgentRecipes :
        LET r == handle_grocery_request(kroger, recipe)
        IN  /\ resp.op = "startup"
            /\ Respond("handle_grocery_request", IF r.raised THEN 500 ELSE 200, NoToken,
                       [recipe |-> recipe, kroger |-> kroger], r)
            /\ UNCHANGED <<dbVars, chromaVars, today, completions>>

GenerateGroceryList ==
    \E kroger \in KrogerInputs, recipe \in AgentRecipes :
        LET r == generate_grocery_list_checked(kroger, recipe)
        IN  /\ resp.op = "startup"
            /\ Respond("generate_grocery_list", IF r.raised THEN 500 ELSE 200, NoToken,
                       [recipe |-> recipe, kroger |-> kroger], r)
            /\ UNCHANGED <<dbVars, chromaVars, today, completions>>

\* categorize_ingredient on the keys of the table and on other names.
CategorizeIngredient ==
    \E name \in {CATEGORY_MAP[i][1] : i \in 1..Len(CATEGORY_MAP)} \cup
                {"", "tofu", "Paneer", "GHEE", "red onions", "cumin powder", "Brown Rice Flour",
                 "chickpeas and spinach", "sweet potato fries", "onion", "toor  dal"} :
        /\ resp.op = "startup"
        /\ Respond("categorize_ingredient", 200, NoToken, name, categorize_ingredient(name))
        /\ UNCHANGED <<dbVars, chromaVars, today, completions>>

\* search_kroger_product: the first k - 1 requests fail in one way, the k-th
\* returns the products P and every later one the products Q. A product of a
\* search response is its description, the regular price of its first item
\* (None when it has no item or the item has no price object) and its brand.
SearchKrogerProduct ==
    LET RawProduct(description, price, brand) ==
            [description |-> description, price |-> price, brand |-> brand]
    IN
    \E name \in {"tofu", "Paneer", "yogurt", "spinach", "brown rice", "paneer cheese"},
       token \in {None, Some("token")},
       k \in 1..MaxAttempts,
       failure \in {"error", "non200", "200"},
       P, Q \in {<<>>,
                 <<RawProduct("Dish Soap", None, "Dawn")>>,
                 <<RawProduct("Brown Rice", None, "Kroger"),
                   RawProduct("Rice Cakes", Some(2990), "Quaker")>>,
                 <<RawProduct("Simple Truth Tofu", Some(1990), "Simple Truth"),
                   RawProduct("Paneer Cheese", Some(4990), "Kroger")>>} :
        LET outcomes == [i \in 1..MaxAttempts |->
                            IF i < k THEN [status |-> failure, data |-> <<>>]
                            ELSE [status |-> "200", data |-> IF i = k THEN P ELSE Q]]
        IN  /\ resp.op = "startup"
            /\ Respond("search_kroger_product", 200, NoToken,
                       [ingredient_name |-> name, token |-> token, outcomes |-> outcomes],
                       search_kroger_attempts(name, token, outcomes))
            /\ UNCHANGED <<dbVars, chromaVars, today, completions>>

NextGroceryAgent ==
    \/ HandleGroceryRequest
    \/ GenerateGroceryList
    \/ CategorizeIngredient
    \/ SearchKrogerProduct

SpecGroceryAgent == Init /\ [][NextGroceryAgent]_vars

(***************************************************************************)
(* The token cache of the grocery agent.                                   *)
(***************************************************************************)
\* The module is imported: load_dotenv() and os.getenv read the credentials
\* (unset, the placeholder of the sample environment file, or real ones).
LoadEnv ==
    /\ kroger_env = None
    /\ \E id \in {"", "your_kroger_client_id_here", "client"}, secret \in {"", "secret"} :
           kroger_env' = Some([id |-> id, secret |-> secret])
    /\ UNCHANGED <<dbVars, chromaVars, today, completions, resp>>
    /\ UNCHANGED <<kroger_token, token_expiry, now, calls, tokenLog>>

\* A call of get_kroger_token takes a step. The function is synchronous and
\* every caller (the async route handlers, the agent's message handlers)
\* runs on the event loop of its process, so a call runs to its return
\* before another call starts.
GetKrogerToken_Threads ==
    \E c \in DOMAIN calls,
       outcome \in [status : {"error", "non200"}, expires_in : {None}]
                   \cup [status : {"200"}, expires_in : {None, Some(120), Some(60)}] :
        get_kroger_token_step(c, outcome)

GetKrogerToken ==
    \E c \in DOMAIN calls,
       outcome \in [status : {"error", "non200"}, expires_in : {None}]
                   \cup [status : {"200"}, expires_in : {None, Some(120), Some(60)}] :
        /\ \A d \in DOMAIN calls \ {c} : calls[d].pc = "idle"
        /\ get_kroger_token_step(c, outcome)

\* Time passes, also while a call waits for the server; the clock is read
\* at the instants around the expiries that can be computed.
Tick ==
    /\ \E t \in {60, 120, 1740, 1800, 1860} : now < t /\ t <= MaxNow /\ now' = t
    /\ UNCHANGED <<dbVars, chromaVars, today, completions, resp>>
    /\ UNCHANGED <<kroger_env, kroger_token, token_expiry, calls, tokenLog>>

NextToken ==
    \/ LoadEnv
    \/ GetKrogerToken
    \/ Tick

SpecToken == Init /\ [][NextToken]_vars

(***************************************************************************)
(* Properties of the account routes, checked under Spec.                   *)
(***************************************************************************)
\* C1: no two rows of the users table share an email or a username, and a
\* registration whose email or username is already taken is answered 400 and
\* leaves the users and user_profiles tables as they were.
C1_DuplicateRegistrationRejected ==
    /\ [](\A i, j \in 1..Len(users) :
            (users[i].email = users[j].email \/ users[i].username = users[j].username)
            => i = j)
    /\ [][(/\ resp'.op = "register"
           /\ \E i \in 1..Len(users) :
                 users[i].email = resp'.req.email \/ users[i].username = resp'.req.username)
          => (resp'.status = 400 /\ users' = users /\ profiles' = profiles)]_vars

\* A registration with a fresh email and a taken username has been rejected
\* while another account exists.
C1_Witness ==
    /\ resp.op = "register"
    /\ resp.status = 400
    /\ Len(users) >= 1
    /\ \A i \in 1..Len(users) : users[i].email # resp.req.email
    /\ \E i \in 1..Len(users) : users[i].username = resp.req.username

(***************************************************************************)
(* Properties of the bearer-token dependency, checked under SpecAuth.      *)
(***************************************************************************)
\* C2: on every route other than GET /, GET /health, GET /agents-metadata,
\* POST /auth/register and POST /auth/login, a request without a bearer token,
\* or with a token whose subject is not an account, is answered 401, and no
\* table row and no vector-store document is created or modified by it.
C2_ProtectedRoutesRequireToken ==
    [][(/\ resp'.op \notin {"root", "health", "agents_metadata", "register", "login"}
        /\ \/ resp'.tok = NoToken
           \/ \A i \in 1..Len(users) : users[i].email # resp'.tok[2])
       => (/\ resp'.status = 401
           /\ UNCHANGED <<dbVars, chromaVars>>)]_vars

\* A request to complete an existing grocery list, carrying a token whose
\* subject has no account, has been answered 401 and the list is still open.
C2_Witness ==
    /\ resp.op = "complete"
    /\ resp.status = 401
    /\ resp.tok # NoToken
    /\ \A i \in 1..Len(users) : users[i].email # resp.tok[2]
    /\ \E i \in 1..Len(groceryLists) : ~groceryLists[i].is_completed

(***************************************************************************)
(* Properties of the meal-planning routes, checked under SpecMeals.        *)
(***************************************************************************)
\* C3: whatever sequence of generate and generate-by-day requests is served,
\* the daily_meal_plans table holds at most one row for a given user and
\* calendar date.
C3_OnePlanPerUserAndDate ==
    \A i, j \in 1..Len(plans) :
        (plans[i].user_id = plans[j].user_id /\ plans[i].date = plans[j].date) => i = j

\* C4: when a generation request has just succeeded and the same client then
\* reads GET /daily-meals/{date} for the date of the plan, the three recipes
\* returned are the three recipes the generation produced.
C4_GetReturnsWhatWasGenerated ==
    [][(/\ resp.op \in {"generate", "generate_by_day"}
        /\ resp.status = 200
        /\ resp'.op = "get_daily_meals"
        /\ resp'.status = 200
        /\ resp'.tok = resp.tok
        /\ resp'.req.date = resp.req.date)
       => resp'.body = <<Shown(resp.body[1]), Shown(resp.body[2]), Shown(resp.body[3])>>]_vars

\* C5: a successful regenerate request for meal m of the plan of (user, date)
\* inserts one Recipe row and points that plan's slot for m at it; the plan's
\* two other slots, its date and its owner, and every other plan, are
\* unchanged. A regenerate request that fails leaves all plans unchanged.
C5_RegenerateReplacesOneMeal ==
    [][(resp'.op = "regenerate" /\ today' = today) =>
          IF resp'.status = 200 /\ recipes' # recipes
          THEN LET u == get_current_user(resp'.tok)
                   p == PlanFor(u, resp'.req.date)
                   m == resp'.req.meal_type
                   new == Len(recipes) + 1
               IN  /\ p # 0
                   /\ Len(recipes') = new
                   /\ SubSeq(recipes', 1, Len(recipes)) = recipes
                   /\ Len(plans') = Len(plans)
                   /\ \A i \in 1..Len(plans) : i # p => plans'[i] = plans[i]
                   /\ plans'[p].user_id = plans[p].user_id
                   /\ plans'[p].date = plans[p].date
                   /\ plans'[p].breakfast_recipe_id =
                        IF m = "breakfast" THEN new ELSE plans[p].breakfast_recipe_id
                   /\ plans'[p].lunch_recipe_id =
                        IF m = "lunch" THEN new ELSE plans[p].lunch_recipe_id
                   /\ plans'[p].dinner_recipe_id =
                        IF m = "dinner" THEN new ELSE plans[p].dinner_recipe_id
          ELSE plans' = plans]_vars

\* A regenerate request has succeeded on a plan that is not the only one.
C5_Witness ==
    /\ resp.op = "regenerate"
    /\ resp.status = 200
    /\ Len(plans) = 2
    /\ \E i \in 1..Len(plans) :
          Len(recipes) \in {plans[i].breakfast_recipe_id, plans[i].lunch_recipe_id,
                            plans[i].dinner_recipe_id}

\* C6: after an authenticated feedback request naming disliked ingredients D
\* and liked ingredients L, the preference store holds a 'disliked' entry for
\* each element of D, a 'liked' entry for each element of L and one entry for
\* the feedback itself, and get_user_dislikes for the user has every element
\* of D.
C6_FeedbackIsStored ==
    (resp.op = "feedback" /\ resp.status # 401) =>
        LET u == get_current_user(resp.tok)
            D == resp.req.disliked
            L == resp.req.liked
            Holds(kind, item) ==
                \E k \in 1..Len(prefDocs) :
                    /\ prefDocs[k].user_id = u
                    /\ prefDocs[k].preference_type = kind
                    /\ prefDocs[k].item_name = item
            dislikes == get_user_dislikes(prefDocs, u)
        IN  /\ \A i \in 1..Len(D) : Holds("disliked", D[i])
            /\ \A i \in 1..Len(L) : Holds("liked", L[i])
            /\ \E k \in 1..Len(prefDocs) :
                    prefDocs[k].user_id = u /\ prefDocs[k].preference_type = "feedback"
            /\ \A i \in 1..Len(D) : \E k \in 1..Len(dislikes) : dislikes[k] = D[i]

(***************************************************************************)
(* Properties of the grocery routes, checked under SpecGrocery.            *)
(***************************************************************************)
\* C7: the total_estimated_cost POST /grocery returns is the sum of the
\* prices of the line items it returns, rounded to 2 decimals (a whole number
\* of cents at most half a cent from the sum), and the GroceryList row it
\* persists holds that total and those items.
C7_GroceryTotalIsSumOfReturnedItems ==
    (resp.op = "grocery" /\ resp.status = 200) =>
        LET items == resp.body.items
            total == resp.body.total_estimated_cost
            sum[i \in 0..Len(items)] ==
                IF i = 0 THEN 0 ELSE sum[i - 1] + items[i].estimated_price[1]
            diff == total - sum[Len(items)]
        IN  /\ \A i \in 1..Len(items) : items[i].estimated_price # None
            /\ total % 10 = 0
            /\ diff <= 5 /\ -diff <= 5
            /\ resp.body.list_id \in 1..Len(groceryLists)
            /\ groceryLists[resp.body.list_id].user_id = get_current_user(resp.tok)
            /\ groceryLists[resp.body.list_id].total_cost = total
            /\ groceryLists[resp.body.list_id].items = items

\* POST /grocery has returned two priced items whose prices do not add up to
\* whole cents.
C7_Witness ==
    /\ resp.op = "grocery"
    /\ resp.status = 200
    /\ Len(resp.body.items) = 2
    /\ resp.body.items[1].estimated_price[1] + resp.body.items[2].estimated_price[1]
          # resp.body.total_estimated_cost

\* C8: when POST /grocery/from-recipe is sent a recipe with a non-empty
\* ingredient list (and an OAuth token is obtained), it returns one line item
\* per named ingredient in recipe order: at the catalog price when the search
\* yields a priced product, otherwise estimated at 2.50 per unit; each
\* total_price is price_per_unit times quantity, total_estimated_cost is the
\* sum of the total_price values and total_items is the number of line items.
C8_FromRecipeLineItems ==
    (/\ resp.op = "from_recipe"
     /\ resp.status # 401
     /\ resp.req.recipe # <<>>
     /\ resp.req.kroger.token) =>
        /\ resp.status = 200
        /\ LET named == SelectSeq(resp.req.recipe, LAMBDA g : g.name # "")
               catalog == resp.req.kroger.catalog
               items == resp.body.items
               sum[i \in 0..Len(items)] ==
                   IF i = 0 THEN 0 ELSE sum[i - 1] + items[i].total_price
           IN  /\ Len(items) = Len(named)
               /\ \A i \in 1..Len(named) :
                     LET hit == catalog[named[i].name]
                         priced == hit # <<>> /\ hit[1].price # <<>> /\ hit[1].price[1] # 0
                     IN  /\ items[i].quantity = named[i].quantity
                         /\ items[i].source = IF priced THEN "kroger" ELSE "estimated"
                         /\ items[i].price_per_unit = IF priced THEN hit[1].price[1] ELSE 2500
                         /\ ~priced => items[i].name = named[i].name
                         /\ items[i].total_price = items[i].price_per_unit * items[i].quantity
               /\ resp.body.total_estimated_cost = sum[Len(items)]
               /\ resp.body.total_items = Len(items)

\* POST /grocery/from-recipe has answered a recipe with an unnamed ingredient
\* by a list holding a catalog-priced item and an estimated item.
C8_Witness ==
    /\ resp.op = "from_recipe"
    /\ resp.status = 200
    /\ Len(resp.body.items) < Len(resp.req.recipe)
    /\ \E i, j \in 1..Len(resp.body.items) :
          resp.body.items[i].source = "kroger" /\ resp.body.items[j].source = "estimated"

\* C9: when the Kroger API is unavailable (no OAuth token, or every product
\* search fails), POST /grocery and POST /grocery/from-recipe still answer
\* 200 with a line item for the recipe's named ingredients.
C9_GroceryFallsBackToEstimates ==
    (/\ resp.op \in {"grocery", "from_recipe"}
     /\ resp.status # 401
     /\ \E i \in 1..Len(resp.req.recipe) : resp.req.recipe[i].name # ""
     /\ \/ ~resp.req.kroger.token
        \/ \A n \in DOMAIN resp.req.kroger.catalog : resp.req.kroger.catalog[n] = <<>>) =>
        /\ resp.status = 200
        /\ Len(resp.body.items) =
              Len(SelectSeq(resp.req.recipe, LAMBDA g : g.name # ""))

(***************************************************************************)
(* Properties of the chat hand-off, checked under SpecChat.                *)
(***************************************************************************)
\* C10: when the structured_data of a chat answer judged complete is handed
\* to generate_recipes and no LLM credentials are configured, the call
\* returns a non-empty recipe list without raising, whatever diet and
\* cuisine (resolved or not) the chat component extracted.
C10_FallbackRecipesForCompleteChat ==
    (/\ resp.op = "generate_recipes"
     /\ resp.req.api_key \in {"", "your_anthropic_api_key_here"}) =>
        /\ ~resp.body.raised
        /\ Len(resp.body.recipes) >= 1

(***************************************************************************)
(* Properties of the recipe agent's computations, checked under SpecCalc.  *)
(***************************************************************************)
\* C11: whatever text the LLM returns, generate_daily_meals_with_claude does
\* not fail on it: the meals it goes on with are an object holding breakfast,
\* lunch and dinner, either one contained in the text or the fixed mock
\* payload.
C11_CompletionAlwaysYieldsThreeMeals ==
    resp.op = "parse_completion" =>
        /\ ~resp.body.raised
        /\ MealKeys \subseteq resp.body.recipes_data.keys
        /\ \/ resp.body.recipes_data = MockMeals
           \/ \E i \in 1..Len(resp.req.response_text) :
                 resp.req.response_text[i].payload = resp.body.recipes_data

(***************************************************************************)
(* Properties of the grocery agent, checked under SpecGroceryAgent.        *)
(***************************************************************************)
\* C12: when the assembly of the list raises, both the message handler and
\* the synchronous wrapper answer with an empty item list, total cost 0, an
\* apologetic message and next_action "retry"; the exception never reaches
\* the caller.
C12_AssemblyErrorsBecomeRetryResponses ==
    (/\ resp.op \in {"handle_grocery_request", "generate_grocery_list"}
     /\ \E i \in 1..Len(resp.req.recipe) : ParseQuantity(resp.req.recipe[i]).raised) =>
        /\ ~resp.body.raised
        /\ resp.body.response.items = <<>>
        /\ resp.body.response.total_estimated_cost = 0
        /\ resp.body.response.message = "Sorry, I encountered an error"
        /\ resp.body.response.next_action = "retry"

(***************************************************************************)
(* Properties of the chat agent, checked under SpecChat.                   *)
(***************************************************************************)
\* C13: a message with a meal-type keyword and no cook-time keyword is
\* reported incomplete and answered with the cook-time question; a message
\* with a meal-type keyword and a cook-time keyword is reported complete; a
\* message without a meal-type keyword is asked for the meal type.
C13_CompletenessGating ==
    resp.op = "process_chat" =>
        LET meal == resp.req.message \cap {"breakfast", "morning", "lunch", "noon",
                                           "dinner", "evening", "snack"} # {}
            cook == resp.req.message \cap {"quick", "fast", "15", "20", "30", "45",
                                           "hour", "60"} # {}
        IN  /\ (meal /\ ~cook) =>
                  /\ resp.body.next_action = "await_user_input"
                  /\ resp.body.message = "How much time do you have to cook?"
            /\ (meal /\ cook) => resp.body.next_action = "generate_recipes"
            /\ ~meal =>
                  /\ resp.body.next_action = "await_user_input"
                  /\ resp.body.message = "What meal are you planning?"

(***************************************************************************)
(* Properties of the macro arithmetic, checked under SpecCalc.             *)
(***************************************************************************)
\* C14: the per-meal targets calculate_target_macros returns for breakfast,
\* lunch, dinner and snack add up to the daily target, within 0.1 g for
\* protein, carbs and fat and within 1 kcal for calories.
C14_MealTargetsSumToDailyTarget ==
    resp.op = "target_macros" =>
        LET Total(macro) == resp.body["breakfast"][macro] + resp.body["lunch"][macro]
                            + resp.body["dinner"][macro] + resp.body["snack"][macro]
            Diff(a, b) == IF a >= b THEN a - b ELSE b - a
        IN  /\ \A macro \in {"protein_g", "carbs_g", "fat_g"} :
                  Diff(Total(macro) * 10, resp.req[macro]) <= 10
            /\ Diff(Total("calories") * 100, resp.req.calories) <= 100

\* C14, amended: the four per-meal targets add up to the daily target within
\* 0.2 g for protein, carbs and fat and within 2 kcal for calories.
C14_MealTargetsSumWithinTwoRoundingUnits ==
    resp.op = "target_macros" =>
        LET Total(macro) == resp.body["breakfast"][macro] + resp.body["lunch"][macro]
                            + resp.body["dinner"][macro] + resp.body["snack"][macro]
            Diff(a, b) == IF a >= b THEN a - b ELSE b - a
        IN  /\ \A macro \in {"protein_g", "carbs_g", "fat_g"} :
                  Diff(Total(macro) * 10, resp.req[macro]) <= 20
            /\ Diff(Total("calories") * 100, resp.req.calories) <= 200

\* The per-meal protein targets of a daily target have been computed and
\* their sum is more than 0.1 g away from it.
C14_Witness ==
    /\ resp.op = "target_macros"
    /\ LET total == resp.body["breakfast"].protein_g + resp.body["lunch"].protein_g
                    + resp.body["dinner"].protein_g + resp.body["snack"].protein_g
       IN  total * 10 + 10 < resp.req.protein_g \/ resp.req.protein_g + 10 < total * 10

\* C15: validate_macro_targets marks a macro with a declared target as met
\* exactly when the actual value lies between 90% and 110% of the target,
\* both ends included, and reports the ratio in percent rounded to the nearest
\* integer; a macro without a target has neither a verdict nor a percentage.
C15_MacroToleranceBoundary ==
    resp.op = "validate_macros" =>
        \A macro \in {"protein", "carbs", "fat"} :
            LET v == resp.body[macro]
                Diff(a, b) == IF a >= b THEN a - b ELSE b - a
            IN  IF v.target = None \/ v.target = Some(0)
                THEN v.met = None /\ v.percentage = None
                ELSE /\ v.met = Some(/\ 9 * v.target[1] <= 10 * v.actual
                                     /\ 10 * v.actual <= 11 * v.target[1])
                     /\ v.percentage # None
                     /\ 2 * Diff(v.percentage[1] * v.target[1], 100 * v.actual) <= v.target[1]

\* A macro exactly 10% above its target has been reported as met, and in the
\* same validation a macro without a target has no verdict.
C15_Witness ==
    /\ resp.op = "validate_macros"
    /\ resp.body.protein.target # None
    /\ resp.body.protein.target[1] > 0
    /\ 10 * resp.body.protein.actual = 11 * resp.body.protein.target[1]
    /\ resp.body.protein.met = Some(TRUE)
    /\ resp.body.carbs.met = None

C18_ProfileRoundTrip ==
    [][(/\ resp.op = "register" /\ resp.status = 200
        /\ resp'.op = "get_profile" /\ resp'.tok = resp.body) =>
            /\ resp'.status = 200
            /\ resp'.body.email = resp.req.email
            /\ resp'.body.username = resp.req.username
            /\ resp'.body.profile # None
            /\ resp'.body.profile[1].daily_calories = resp.req.profile.daily_calories
            /\ resp'.body.profile[1].macros =
                  IF resp.req.profile.target_protein_g = None THEN None
                  ELSE Some([protein |-> resp.req.profile.target_protein_g])]_vars

(***************************************************************************)
(* Properties of row ownership, checked under SpecOwner.                   *)
(***************************************************************************)
\* C19: a favorite-toggle, complete-list or regenerate request naming a
\* recipe, grocery list or meal plan that does not exist or belongs to
\* another user is answered 404 and leaves the tables as they were; and every
\* authenticated request creates or modifies only rows of its caller.
C19_OwnRowsOnly ==
    [][LET u == get_current_user(resp'.tok)
           req == resp'.req
           tables == << <<recipes, recipes'>>, <<plans, plans'>>,
                        <<groceryLists, groceryLists'>>, <<mealHistory, mealHistory'>>,
                        <<profiles, profiles'>> >>
       IN  /\ (/\ resp'.op = "toggle_favorite" /\ u # 0
               /\ \/ req.recipe_id \notin 1..Len(recipes)
                  \/ recipes[req.recipe_id].user_id # u)
                 => (resp'.status = 404 /\ UNCHANGED dbVars)
           /\ (/\ resp'.op = "complete" /\ u # 0
               /\ \/ req.list_id \notin 1..Len(groceryLists)
                  \/ groceryLists[req.list_id].user_id # u)
                 => (resp'.status = 404 /\ UNCHANGED dbVars)
           /\ (/\ resp'.op = "regenerate" /\ u # 0
               /\ \A i \in 1..Len(plans) :
                     plans[i].user_id # u \/ plans[i].date # req.date)
                 => (resp'.status = 404 /\ UNCHANGED dbVars)
           /\ resp'.op # "register" =>
                 \A k \in 1..Len(tables) :
                    LET old == tables[k][1]
                        new == tables[k][2]
                    IN  /\ Len(new) >= Len(old)
                        /\ \A i \in 1..Len(new) :
                              IF i > Len(old) THEN new[i].user_id = u
                              ELSE new[i] # old[i] =>
                                      (old[i].user_id = u /\ new[i].user_id = u)]_vars

\* A user has asked to toggle the favorite flag of a recipe of another user
\* and was answered 404, the recipe being as it was saved.
C19_Witness ==
    /\ resp.op = "toggle_favorite"
    /\ resp.status = 404
    /\ get_current_user(resp.tok) # 0
    /\ resp.req.recipe_id \in 1..Len(recipes)
    /\ recipes[resp.req.recipe_id].user_id # get_current_user(resp.tok)
    /\ ~recipes[resp.req.recipe_id].is_favorite

(***************************************************************************)
(* Properties of the day-name validation, checked under SpecMeals.         *)
(***************************************************************************)
\* C20: an authenticated POST /daily-meals/generate-by-day whose day is not
\* one of the seven weekday names is answered 400, and no completion has been
\* requested, no vector-store document written and no row inserted.
C20_InvalidDayRejectedFirst ==
    [][(/\ resp'.op = "generate_by_day"
        /\ get_current_user(resp'.tok) # 0
        /\ resp'.req.day \notin valid_days)
       => (/\ resp'.status = 400
           /\ UNCHANGED <<dbVars, chromaVars, completions>>)]_vars

\* A registered user has sent a day name that is no weekday and got 400.
C20_Witness ==
    /\ resp.op = "generate_by_day"
    /\ resp.status = 400
    /\ get_current_user(resp.tok) # 0
    /\ resp.req.day = "Someday"

(***************************************************************************)
(* Properties of the grocery agent's functions, checked under              *)
(* SpecGroceryAgent.                                                       *)
(***************************************************************************)
\* C21: categorize_ingredient returns, for a name that is a key of the
\* category table, the category of that key, and "Other" for every name that
\* is not a key of the table.
C21_CategoryOfKeyElseOther ==
    resp.op = "categorize_ingredient" =>
        LET keys == {i \in 1..Len(CATEGORY_MAP) : CATEGORY_MAP[i][1] = lower(resp.req)}
        IN  /\ \A i \in keys : resp.body = CATEGORY_MAP[i][2]
            /\ keys = {} => resp.body = "Other"

\* C21, amended: for a key of the table the category of that key; for a name
\* that is no key but contains keys, the category of the first such key in the
\* order of the table; "Other" exactly for the names that contain no key; the
\* result is always one of the table's categories or "Other".
C21_CategoryOfKeyOrContainedKey ==
    resp.op = "categorize_ingredient" =>
        LET name == lower(resp.req)
            keys == {i \in 1..Len(CATEGORY_MAP) : CATEGORY_MAP[i][1] = name}
            inside == {i \in 1..Len(CATEGORY_MAP) : Contains(CATEGORY_MAP[i][1], name)}
        IN  /\ \A i \in keys : resp.body = CATEGORY_MAP[i][2]
            /\ (keys = {} /\ inside # {}) =>
                  \E i \in inside : /\ \A j \in inside : i <= j
                                    /\ resp.body = CATEGORY_MAP[i][2]
            /\ inside = {} <=> resp.body = "Other"
            /\ resp.body \in {CATEGORY_MAP[i][2] : i \in 1..Len(CATEGORY_MAP)} \cup {"Other"}

\* A name that is no key of the table but contains two keys of different
\* categories has been given the category of the key that comes first.
C21_Witness ==
    /\ resp.op = "categorize_ingredient"
    /\ resp.req = "chickpeas and spinach"
    /\ resp.body = "Produce"

\* C22: the searches for an ingredient are built in the order exact term,
\* category (only when the category is not "Other"), brands, alternative
\* names, with the generic "<ingredient> grocery" search appended exactly when
\* fewer than 3 were built before it; search_kroger_product issues them in that
\* order, goes on after a request that fails, and stops after the first one
\* that yields a match with a positive score.
C22_SearchOrder ==
    (resp.op = "search_kroger_product" /\ resp.req.token # None) =>
        LET name == resp.req.ingredient_name
            S == get_search_strategies(name)
            issued == resp.body.issued
            Rank(kind) == CASE kind = "exact_term" -> 1
                            [] kind = "category_search" -> 2
                            [] kind = "brand" -> 3
                            [] kind = "alternative" -> 4
                            [] kind = "generic_search" -> 5
            Count(kind) == Cardinality({i \in 1..Len(S) : S[i].kind = kind})
            Matched(i) == /\ resp.req.outcomes[i].status = "200"
                          /\ find_best_product_match(resp.req.outcomes[i].data, name) # 0
        IN  /\ \A i, j \in 1..Len(S) : i < j => Rank(S[i].kind) <= Rank(S[j].kind)
            /\ Count("exact_term") = 1
            /\ Count("category_search") = IF categorize_ingredient(name) = "Other" THEN 0 ELSE 1
            /\ Count("generic_search") = IF Len(S) - Count("generic_search") < 3 THEN 1 ELSE 0
            /\ \A i \in 1..Len(S) :
                  S[i].kind = "generic_search" => S[i].term = name \o " grocery"
            /\ Len(issued) <= Len(S)
            /\ issued = SubSeq(S, 1, Len(issued))
            /\ \A i \in 1..Len(issued) : Matched(i) <=> (i = Len(issued) /\ resp.body.result # None)
            /\ resp.body.result = None => Len(issued) = Len(S)

\* Two requests that raised have been skipped, the third search has matched,
\* and the remaining four were not made.
C22_Witness ==
    /\ resp.op = "search_kroger_product"
    /\ resp.req.token # None
    /\ resp.req.outcomes[1].status = "error"
    /\ Len(resp.body.issued) = 3
    /\ resp.body.issued[3].kind = "brand"
    /\ resp.body.result # None
    /\ Len(get_search_strategies(resp.req.ingredient_name)) = 7

\* C23: whenever a search that was issued for an ingredient returned at least
\* one product with a price, the search yields a best match and that match
\* carries a price (so the ingredient is not reported as not found).
C23_PricedProductWins ==
    (resp.op = "search_kroger_product" /\ resp.req.token # None) =>
        LET returned == {i \in 1..Len(resp.body.issued) : resp.req.outcomes[i].status = "200"}
            priced == \E i \in returned : \E p \in 1..Len(resp.req.outcomes[i].data) :
                          resp.req.outcomes[i].data[p].price # None
        IN  priced => (resp.body.result # None /\ Priced(resp.body.result))

\* C26: every old-format ingredient of a recipe handed to create_grocery_list
\* is normalized without an exception: to the leading number and the trailing
\* letters when the quantity text has that shape, and to quantity 1 with unit
\* "unit" when the text cannot be parsed.
C26_QuantityNormalizationNeverRaises ==
    resp.op \in {"handle_grocery_request", "generate_grocery_list"} =>
        \A i \in 1..Len(resp.req.recipe) :
            "quantity_str" \in DOMAIN resp.req.recipe[i] =>
                LET text == resp.req.recipe[i].quantity_str
                    q == ParseQuantity(resp.req.recipe[i])
                IN  /\ ~q.raised
                    /\ text = "200g" => (q.quantity = 200000 /\ q.unit = "g")
                    /\ text = "2.5 kg" => (q.quantity = 2500 /\ q.unit = "kg")
                    /\ text \in {"abc", ".", "1.2.3", "1.5.2", "a pinch"} =>
                          (q.quantity = 1000 /\ q.unit = "unit")

\* C28: in the result of create_grocery_list, kroger_items_found is the
\* number of returned items, which is at most total_items, the number of the
\* recipe's ingredients; every returned item has a price, that of the catalog
\* match of its ingredient; and the items are in the order of the ingredients
\* they were found for.
C28_FoundItemsInRecipeOrder ==
    (resp.op = "generate_grocery_list" /\ ~resp.body.raised) =>
        LET recipe == resp.req.recipe
            kroger == resp.req.kroger
            r == resp.body.response
            Match(i) == search_kroger_product(kroger, recipe[i].name)
            found == {i \in 1..Len(recipe) : Priced(Match(i))}
            \* the position in the recipe of the k-th ingredient found
            Pos(k) == CHOOSE i \in found : Cardinality({j \in found : j <= i}) = k
        IN  /\ r.kroger_items_found = Len(r.items)
            /\ Len(r.items) <= r.total_items
            /\ r.total_items = Len(recipe)
            /\ Len(r.items) = Cardinality(found)
            /\ \A k \in 1..Len(r.items) :
                  /\ r.items[k].estimated_price # None
                  /\ r.items[k].estimated_price = Match(Pos(k))[1].price
                  /\ r.items[k].name = Match(Pos(k))[1].name

\* A recipe of tofu and then rice, both found in the catalog, has given a
\* list of two items with the tofu first.
C28_Witness ==
    /\ resp.op = "generate_grocery_list"
    /\ ~resp.body.raised
    /\ Len(resp.req.recipe) = 2
    /\ resp.req.recipe[1].name = "tofu"
    /\ resp.req.recipe[2].name = "rice"
    /\ Len(resp.body.response.items) = 2
    /\ resp.body.response.items[1].name = "Firm Tofu"

(***************************************************************************)
(* Properties of the recipe response's bookkeeping, checked under SpecChat. *)
(***************************************************************************)
\* C27: in a recipe-generation response the llm_provider tag is "claude"
\* only when tools_called has "claude_api_call", and it is "mock" whenever
\* tools_called has "generate_mock_recipes_fallback".
C27_ProviderAgreesWithToolsCalled ==
    (resp.op = "generate_recipes" /\ ~resp.body.raised) =>
        LET tools == {resp.body.tools_called[i] : i \in 1..Len(resp.body.tools_called)}
        IN  /\ resp.body.llm_provider = "claude" => "claude_api_call" \in tools
            /\ "generate_mock_recipes_fallback" \in tools => resp.body.llm_provider = "mock"

(***************************************************************************)
(* Properties of the token cache, checked under SpecToken.                 *)
(***************************************************************************)
\* C24: with credentials configured, a call of get_kroger_token returns the
\* cached token without a token request exactly while the time is earlier
\* than the time the token was obtained + its expires_in (1800 when the
\* response has none) - 60, and requests a new token otherwise; a failed
\* token request returns no token and leaves the cached token and expiry
\* unchanged; with credentials absent or equal to the placeholder no token
\* request is ever made.
C24_CachedUntilSixtySecondsBeforeExpiry ==
    [][\A c \in DOMAIN calls :
        LET configured == /\ kroger_env # None
                          /\ kroger_env[1].id \notin {"", "your_kroger_client_id_here"}
                          /\ kroger_env[1].secret # ""
            obtained == tokenLog[kroger_token[1]]
            lifetime == IF obtained.expires_in = None THEN 1800 ELSE obtained.expires_in[1]
            fresh == /\ kroger_token # None
                     /\ obtained.stored # None
                     /\ now < obtained.stored[1] + lifetime - 60
        IN  /\ (calls[c].pc = "idle" /\ calls'[c] # calls[c]) =>
                IF ~configured
                THEN calls'[c].pc = "idle" /\ calls'[c].ret = None /\ tokenLog' = tokenLog
                ELSE IF fresh
                THEN calls'[c].pc = "idle" /\ calls'[c].ret = kroger_token /\ tokenLog' = tokenLog
                ELSE calls'[c].pc = "requests.post" /\ Len(tokenLog') = Len(tokenLog) + 1
            /\ (calls[c].pc = "requests.post" /\ calls'[c] # calls[c]
                /\ tokenLog'[calls[c].request].status # "200") =>
                /\ calls'[c].pc = "idle" /\ calls'[c].ret = None
                /\ kroger_token' = kroger_token /\ token_expiry' = token_expiry
            /\ ~configured => tokenLog' = <<>>
      ]_vars

\* A token was obtained and served, the cache expired, and the refresh
\* failed: the first token is still cached.
C24_Witness ==
    /\ Len(tokenLog) = 2
    /\ tokenLog[1].status = "200" /\ tokenLog[1].expires_in = None
    /\ tokenLog[2].status = "non200"
    /\ kroger_token = Some(1) /\ token_expiry = Some(1740)
    /\ calls["A"].ret = Some(1) /\ calls["B"] = [pc |-> "idle", request |-> 0, expires_in |-> 0, ret |-> None]
    /\ now = 1800

C29_OneDocumentPerMeal ==
    [][(resp'.op \in {"generate", "generate_by_day"} /\ resp'.status = 200
        /\ Len(plans') = Len(plans) + 1) =>
          /\ Len(recipeDocs') = Len(recipeDocs) + 3
          /\ \A k \in 1..3 : recipes'[Len(recipes) + k].chroma_id = resp'.body[k].chroma_id
          /\ \A d \in (Len(recipeDocs) + 1)..Len(recipeDocs') :
                \E i \in 1..Len(recipes') : recipes'[i].chroma_id = d
      ]_vars

\* C29 (amended): that holds for /daily-meals/generate; after a successful
\* /daily-meals/generate-by-day each generated meal has two recipe documents,
\* the chroma_id returned to the client names the first, the Recipe row
\* stores the chroma_id of the second, and the first is referenced by no
\* Recipe row.
C29_OneDocumentPerMealTwoByDay ==
    [][(resp'.op \in {"generate", "generate_by_day"} /\ resp'.status = 200
        /\ Len(plans') = Len(plans) + 1) =>
          LET copies == IF resp'.op = "generate" THEN 1 ELSE 2
              first == Len(recipeDocs)
              last == Len(recipeDocs) + 3 * (copies - 1)
          IN  /\ Len(recipeDocs') = Len(recipeDocs) + 3 * copies
              /\ Len(recipes') = Len(recipes) + 3
              /\ \A k \in 1..3 :
                    LET row == recipes'[Len(recipes) + k]
                    IN  /\ resp'.body[k].chroma_id = first + k
                        /\ row.chroma_id = last + k
                        /\ \A d \in {first + k, last + k} :
                              /\ recipeDocs'[d].title = row.title
                              /\ recipeDocs'[d].meal_type = row.meal_type
                              /\ recipeDocs'[d].user_id = row.user_id
              /\ \A d \in (Len(recipeDocs) + 1)..Len(recipeDocs') :
                    (\E i \in 1..Len(recipes') : recipes'[i].chroma_id = d) <=> d > last
      ]_vars

\* A plan generated by day: the dinner row names the sixth document written,
\* the client was given the third.
C29_Witness ==
    /\ resp.op = "generate_by_day" /\ resp.status = 200
    /\ Len(recipes) = 3 /\ Len(recipeDocs) >= 6
    /\ resp.body[3].chroma_id = Len(recipeDocs) - 3
    /\ recipes[3].chroma_id = Len(recipeDocs)

\* C30: daily-plan generation is all-or-nothing in the relational store: a
\* generate or generate-by-day request that ends in an error at any step
\* leaves no Recipe row and no DailyMealPlan row committed for it, and one
\* that succeeds has committed exactly three Recipe rows and one
\* DailyMealPlan row referencing them.
C30_GenerationAllOrNothing ==
    [][(resp'.op \in {"generate", "generate_by_day"}) =>
          IF resp'.status = 200
          THEN /\ Len(recipes') = Len(recipes) + 3
               /\ SubSeq(recipes', 1, Len(recipes)) = recipes
               /\ plans' = Append(plans, [user_id |-> get_current_user(resp'.tok),
                                          date |-> today,
                                          breakfast_recipe_id |-> Len(recipes) + 1,
                                          lunch_recipe_id |-> Len(recipes) + 2,
                                          dinner_recipe_id |-> Len(recipes) + 3])
          ELSE recipes' = recipes /\ plans' = plans
      ]_vars

====
